---- MODULE Spec2Model ----
(***************************************************************************)
(* A model of the GoSec unified finding graph (package engine): ingestion  *)
(* with severity clamping and deduplication, the correlation/escalation    *)
(* pass, snapshot save/load and snapshot comparison.                       *)
(*                                                                         *)
(* A Go string is a TLA+ string, that is the sequence of its characters:   *)
(* substring search, case folding and concatenation are computed on the    *)
(* characters with Len, SubSeq and \o.  A Go nil slice or map and an empty  *)
(* one are both the empty sequence or function: the code only ranges over  *)
(* them and takes their length.                                            *)
(***************************************************************************)
EXTENDS Integers, Sequences, FiniteSets, TLC

VARIABLES Nodes, Edges, Findings, file, baseline, diff, err, last, prev, batch, calls,
          mu, search, producers, reader, snap, cmp

vars == <<Nodes, Edges, Findings, file, baseline, diff, err, last, prev, batch, calls,
          mu, search, producers, reader, snap, cmp>>

(***************************************************************************)
(* String literals of the code and of its tests.                           *)
(***************************************************************************)
NmapTool == "Nmap"
LynisTool == "Lynis"
Port22 == "22/tcp"
OpenWord == "open"
CryptoWord == "crypto"
CriticalSuffix == " [CRITICAL: Combined with Weak Crypto Policy]"
HostType == "host"
Sep == "|"

(* In the texts of the model "~" stands for the byte 0xFF, which is no     *)
(* valid UTF-8, and "?" for U+FFFD, the replacement character that         *)
(* encoding/json writes in its place.                                      *)
BadByte == "~"
ReplacementChar == "?"

(***************************************************************************)
(* strings.Contains, strings.ToLower and string concatenation.             *)
(***************************************************************************)
Contains(s, sub) ==
    \E i \in 0..(Len(s) - Len(sub)) : SubSeq(s, i + 1, i + Len(sub)) = sub

(* The capital letters and their small ones.                              *)
LowerTable ==
    ("A" :> "a") @@ ("B" :> "b") @@ ("C" :> "c") @@ ("D" :> "d") @@ ("E" :> "e") @@
    ("F" :> "f") @@ ("G" :> "g") @@ ("H" :> "h") @@ ("I" :> "i") @@ ("J" :> "j") @@
    ("K" :> "k") @@ ("L" :> "l") @@ ("M" :> "m") @@ ("N" :> "n") @@ ("O" :> "o") @@
    ("P" :> "p") @@ ("Q" :> "q") @@ ("R" :> "r") @@ ("S" :> "s") @@ ("T" :> "t") @@
    ("U" :> "u") @@ ("V" :> "v") @@ ("W" :> "w") @@ ("X" :> "x") @@ ("Y" :> "y") @@
    ("Z" :> "z")

LowerChar(c) == IF c \in DOMAIN LowerTable THEN LowerTable[c] ELSE c

RECURSIVE ToLower(_)
ToLower(s) ==
    IF Len(s) <= 1 THEN LowerChar(s)
    ELSE LET half == Len(s) \div 2
         IN  ToLower(SubSeq(s, 1, half)) \o ToLower(SubSeq(s, half + 1, Len(s)))

(***************************************************************************)
(* The Finding record (finding.go) and the findings the producers hand in. *)
(***************************************************************************)
Finding(id, tool, cat, sev, conf, asset, ev, hint, cl) ==
    [ID |-> id, SourceTool |-> tool, Category |-> cat, Severity |-> sev,
     Confidence |-> conf, Asset |-> asset, Evidence |-> ev,
     RemediationHint |-> hint, ComplianceList |-> cl]

(* Input severities: below the range, inside it, above it.                 *)
SevInputs == {0, 2, 11}

(* The Nmap finding of the integration test: port 22 open on a host.       *)
SSH1(s) == Finding("nmap-ssh-1", NmapTool, "network", s, "", "H1", "22/tcp open ssh", "", <<>>)
(* A second open-SSH finding, on another host.                             *)
SSH2 == Finding("nmap-ssh-2", NmapTool, "network", 5, "", "H2", "Port 22/tcp is open", "", <<>>)
(* The other Nmap finding of the test, open but not port 22, reported      *)
(* twice: same signature, every other field different.                     *)
HTTP == Finding("nmap-http-1", NmapTool, "network", 5, "low", "H1", "80/tcp open http", "old", <<"CIS">>)
HTTPb == Finding("nmap-http-9", NmapTool, "network", 12, "high", "H1", "80/tcp open http", "new", <<"NIST">>)
(* The Lynis finding of the integration test.                              *)
LYN == Finding("lynis-warn-1", LynisTool, "compliance", 6, "", "H1", "Weak crypto policy detected", "Update SSH", <<>>)
(* A Lynis finding that spells the word in capitals and names no asset.    *)
LYNU == Finding("lynis-warn-2", LynisTool, "compliance", -3, "", "", "CRYPTO", "", <<>>)

(* The findings of the snapshot test: one tool, three assets.               *)
TA1 == Finding("", "ToolA", "Test", 5, "", "Asset1", "Finding 1", "", <<>>)
TA2 == Finding("", "ToolA", "Test", 5, "", "Asset2", "Finding 2", "", <<>>)
TA3 == Finding("", "ToolA", "Test", 8, "", "Asset3", "Finding 3", "", <<>>)
(* Two findings that differ in asset and evidence, with the separator of   *)
(* the signature inside a field.                                           *)
PA == Finding("p-1", "ToolA", "Test", 3, "", "a|b", "c", "", <<>>)
PB == Finding("p-2", "ToolA", "Test", 4, "", "a", "b|c", "", <<>>)
(* A finding whose evidence, copied from a tool's output, holds a byte     *)
(* that is no UTF-8.                                                       *)
BAD == Finding("b-1", "ToolA", "Test", 5, "", "Asset1", "banner " \o BadByte, "", <<>>)

FindingInputs == {SSH1(s) : s \in SevInputs} \cup {SSH2, HTTP, HTTPb, LYN, LYNU}

(* A batch is empty, one finding, or one of the pairs that interact: both  *)
(* sides of the correlation rule in either order, one signature twice,     *)
(* two open-SSH findings, a finding without asset ahead of one with.       *)
PairBatches ==
    {<<SSH1(2), LYN>>, <<LYN, SSH1(2)>>, <<HTTP, HTTPb>>, <<HTTPb, HTTP>>,
     <<SSH1(2), SSH1(11)>>, <<SSH1(11), SSH1(0)>>, <<SSH1(2), SSH2>>, <<SSH2, SSH1(2)>>,
     <<LYNU, HTTP>>}

Batches == {<<>>} \cup {<<f>> : f \in FindingInputs} \cup PairBatches

(* The evidence texts that occur in the model.                             *)
KnownEvidence == {f.Evidence : f \in FindingInputs}

(***************************************************************************)
(* The graph: NewUnifiedGraph, AddNode, AddEdge.                           *)
(***************************************************************************)
Graph(nodes, edges, findings) == [Nodes |-> nodes, Edges |-> edges, Findings |-> findings]

(* A map with no key: make(map[string]*Node).                              *)
NoNodes == [k \in {} |-> k]

NewUnifiedGraph == Graph(NoNodes, <<>>, <<>>)

Node(id, type, label) == [ID |-> id, Type |-> type, Label |-> label, Metadata |-> NoNodes]

Edge(src, dst, type, weight) == [SourceID |-> src, TargetID |-> dst, Type |-> type, Weight |-> weight]

(* g.Nodes[node.ID] = &node                                                *)
PutNode(nodes, node) == [k \in DOMAIN nodes \cup {node.ID} |-> IF k = node.ID THEN node ELSE nodes[k]]

(***************************************************************************)
(* AddFindings, step by step.                                              *)
(***************************************************************************)
MinSeverity == 1
MaxSeverity == 10

(* EnsureNode that puts a host node for the asset whether it has a node    *)
(* or not.                                                                 *)
EnsureNodeOverwriting(nodes, f) ==
    IF f.Asset # ""
    THEN PutNode(nodes, Node(f.Asset, HostType, f.Asset))
    ELSE nodes

(* Step 1: a finding that names an asset gets a host node, unless the      *)
(* asset has a node already.                                               *)
EnsureNode(nodes, f) ==
    IF f.Asset # "" /\ f.Asset \notin DOMAIN nodes
    THEN PutNode(nodes, Node(f.Asset, HostType, f.Asset))
    ELSE nodes

(* ClampSeverity without its second if.                                    *)
ClampSeverityLowOnly(f) ==
    IF f.Severity < MinSeverity THEN [f EXCEPT !.Severity = MinSeverity] ELSE f

(* Step 2: the two ifs that bring the severity into the range.             *)
ClampSeverity(f) ==
    LET low == IF f.Severity < MinSeverity THEN [f EXCEPT !.Severity = MinSeverity] ELSE f
    IN  IF low.Severity > MaxSeverity THEN [low EXCEPT !.Severity = MaxSeverity] ELSE low

(* The comparison of the deduplication loop.                               *)
SameKey(existing, f) ==
    /\ existing.Asset = f.Asset
    /\ existing.Category = f.Category
    /\ existing.SourceTool = f.SourceTool
    /\ existing.Evidence = f.Evidence

(* Dedup that keeps the stored finding instead of overwriting it.          *)
DedupKeepStored(findings, f) ==
    IF \E i \in 1..Len(findings) : SameKey(findings[i], f)
    THEN findings
    ELSE Append(findings, f)

(* Dedup that appends without looking for the key.                         *)
DedupAlwaysAppend(findings, f) == Append(findings, f)

(* Dedup that takes the stored finding out and puts the new one at the     *)
(* end.                                                                    *)
DedupMoveToEnd(findings, f) ==
    LET hits == {i \in 1..Len(findings) : SameKey(findings[i], f)}
    IN  IF hits # {}
        THEN LET i == CHOOSE j \in hits : \A k \in hits : j <= k
             IN  Append(SubSeq(findings, 1, i - 1) \o SubSeq(findings, i + 1, Len(findings)), f)
        ELSE Append(findings, f)

(* Step 3: the first stored finding with the same key is overwritten;      *)
(* without one the finding is appended.                                    *)
Dedup(findings, f) ==
    LET hits == {i \in 1..Len(findings) : SameKey(findings[i], f)}
    IN  IF hits # {}
        THEN LET i == CHOOSE j \in hits : \A k \in hits : j <= k
             IN  [findings EXCEPT ![i] = f]
        ELSE Append(findings, f)

(* IngestOne that leaves out a finding without an asset.                   *)
IngestOneNamedOnly(gr, f) ==
    IF f.Asset = "" THEN gr
    ELSE Graph(EnsureNode(gr.Nodes, f), gr.Edges, Dedup(gr.Findings, ClampSeverity(f)))

(* One turn of the loop over newFindings.                                  *)
IngestOne(gr, f) ==
    Graph(EnsureNode(gr.Nodes, f), gr.Edges, Dedup(gr.Findings, ClampSeverity(f)))

RECURSIVE IngestAll(_, _)
IngestAll(gr, newFindings) ==
    IF newFindings = <<>> THEN gr
    ELSE IngestAll(IngestOne(gr, Head(newFindings)), Tail(newFindings))

(***************************************************************************)
(* detectRelationships: open SSH seen by Nmap together with weak crypto    *)
(* seen by Lynis escalates the SSH finding.                                *)
(***************************************************************************)
MatchesOpenSSH(evidence) == Contains(evidence, Port22) /\ Contains(evidence, OpenWord)

MatchesWeakCrypto(evidence) == Contains(ToLower(evidence), CryptoWord)

(* The two tests on the known evidence texts, computed once.               *)
OpenSSHEvidence == {e \in KnownEvidence : MatchesOpenSSH(e)}
WeakCryptoEvidence == {e \in KnownEvidence : MatchesWeakCrypto(e)}

IsOpenSSH(f) ==
    /\ f.SourceTool = NmapTool
    /\ IF f.Evidence \in KnownEvidence
       THEN f.Evidence \in OpenSSHEvidence
       ELSE MatchesOpenSSH(f.Evidence)

IsWeakCrypto(f) ==
    /\ f.SourceTool = LynisTool
    /\ IF f.Evidence \in KnownEvidence
       THEN f.Evidence \in WeakCryptoEvidence
       ELSE MatchesWeakCrypto(f.Evidence)

(* A scan that stops at the first match.                                   *)
SSHFindingIndexFirst(findings) ==
    LET hits == {i \in 1..Len(findings) : IsOpenSSH(findings[i])}
    IN  IF hits = {} THEN 0 ELSE CHOOSE j \in hits : \A k \in hits : j <= k

(* The scan assigns sshFindingIndex at every match: the last one stays.    *)
SSHFindingIndex(findings) ==
    LET hits == {i \in 1..Len(findings) : IsOpenSSH(findings[i])}
    IN  IF hits = {} THEN 0 ELSE CHOOSE j \in hits : \A k \in hits : k <= j

EscalationStep == 2

(* Escalate without the test on the severity.                              *)
EscalateAtAnySeverity(f) ==
    LET boosted == f.Severity + EscalationStep
    IN  [f EXCEPT !.Severity = IF boosted > MaxSeverity THEN MaxSeverity ELSE boosted,
                  !.RemediationHint = @ \o CriticalSuffix]

(* Escalate that boosts by one.                                            *)
EscalateByOne(f) ==
    IF f.Severity < MaxSeverity
    THEN [f EXCEPT !.Severity = f.Severity + 1, !.RemediationHint = @ \o CriticalSuffix]
    ELSE f

(* Escalate that leaves alone a finding whose hint has the suffix.         *)
EscalateUnmarkedOnly(f) ==
    IF f.Severity < MaxSeverity /\ ~Contains(f.RemediationHint, CriticalSuffix)
    THEN LET boosted == f.Severity + EscalationStep
         IN  [f EXCEPT !.Severity = IF boosted > MaxSeverity THEN MaxSeverity ELSE boosted,
                       !.RemediationHint = @ \o CriticalSuffix]
    ELSE f

Escalate(f) ==
    IF f.Severity < MaxSeverity
    THEN LET boosted == f.Severity + EscalationStep
         IN  [f EXCEPT !.Severity = IF boosted > MaxSeverity THEN MaxSeverity ELSE boosted,
                       !.RemediationHint = @ \o CriticalSuffix]
    ELSE f

detectRelationships(findings) ==
    LET hasOpenSSH == \E i \in 1..Len(findings) : IsOpenSSH(findings[i])
        sshFindingIndex == SSHFindingIndex(findings)
        hasWeakCrypto == \E i \in 1..Len(findings) : IsWeakCrypto(findings[i])
    IN  IF hasOpenSSH /\ hasWeakCrypto
        THEN [findings EXCEPT ![sshFindingIndex] = Escalate(@)]
        ELSE findings

(* The whole call: the loop, then the correlation pass.                    *)
AddFindingsOp(gr, newFindings) ==
    LET looped == IngestAll(gr, newFindings)
    IN  Graph(looped.Nodes, looped.Edges, detectRelationships(looped.Findings))

(***************************************************************************)
(* Snapshots.  The content of a file is what a JSON decoder finds in it:   *)
(* an object with the keys nodes, edges and findings, an array of finding  *)
(* objects, the literal null, or text that is no JSON; or there is no      *)
(* file.                                                                   *)
(***************************************************************************)
JSON(shape, nodes, edges, findings) ==
    [shape |-> shape, nodes |-> nodes, edges |-> edges, findings |-> findings]

NoFile == JSON("missing", NoNodes, <<>>, <<>>)

JSONNull == JSON("null", NoNodes, <<>>, <<>>)

NotJSON == JSON("invalid", NoNodes, <<>>, <<>>)

(* encoding/json writes a string byte by byte and puts U+FFFD where the    *)
(* bytes are no UTF-8.                                                     *)
EncodeChar(c) == IF c = BadByte THEN ReplacementChar ELSE c

RECURSIVE EncodeBytes(_)
EncodeBytes(s) ==
    IF Len(s) <= 1 THEN EncodeChar(s)
    ELSE LET half == Len(s) \div 2
         IN  EncodeBytes(SubSeq(s, 1, half)) \o EncodeBytes(SubSeq(s, half + 1, Len(s)))

(* The texts of the findings handed in, a hint also with the suffixes the  *)
(* escalations add, and their encodings, computed once.                    *)
RECURSIVE Escalations(_, _)
Escalations(hint, k) ==
    IF k = 0 THEN {hint} ELSE {hint} \cup Escalations(hint \o CriticalSuffix, k - 1)

KnownTexts ==
    UNION {{f.ID, f.SourceTool, f.Category, f.Confidence, f.Asset, f.Evidence}
              \cup {f.ComplianceList[i] : i \in 1..Len(f.ComplianceList)}
              \cup Escalations(f.RemediationHint, 5) :
           f \in FindingInputs \cup {TA1, TA2, TA3, PA, PB, BAD}}

EncodedText == [s \in KnownTexts |-> EncodeBytes(s)]

EncodeString(s) == IF s \in KnownTexts THEN EncodedText[s] ELSE EncodeBytes(s)

EncodeFinding(f) ==
    Finding(EncodeString(f.ID), EncodeString(f.SourceTool), EncodeString(f.Category),
            f.Severity, EncodeString(f.Confidence), EncodeString(f.Asset),
            EncodeString(f.Evidence), EncodeString(f.RemediationHint),
            [i \in 1..Len(f.ComplianceList) |-> EncodeString(f.ComplianceList[i])])

EncodeFindings(findings) == [i \in 1..Len(findings) |-> EncodeFinding(findings[i])]

EncodeEdge(e) ==
    Edge(EncodeString(e.SourceID), EncodeString(e.TargetID), EncodeString(e.Type), e.Weight)

EncodeEdges(edges) == [i \in 1..Len(edges) |-> EncodeEdge(edges[i])]

(* Two keys with the same encoding are written one after the other, and    *)
(* the decoder keeps one of them.                                          *)
EncodeNodes(nodes) ==
    [k \in {EncodeString(id) : id \in DOMAIN nodes} |->
        LET id == CHOOSE id \in DOMAIN nodes : EncodeString(id) = k
        IN  Node(k, EncodeString(nodes[id].Type), EncodeString(nodes[id].Label))]

GraphSnapshot(gr) == [Nodes |-> gr.Nodes, Edges |-> gr.Edges, Findings |-> gr.Findings]

(* json.MarshalIndent of a GraphSnapshot.                                  *)
MarshalIndent(snapshot) ==
    JSON("object", EncodeNodes(snapshot.Nodes), EncodeEdges(snapshot.Edges),
         EncodeFindings(snapshot.Findings))

(* json.MarshalIndent of g.Findings, as the findings-only graph saves.     *)
MarshalIndentFindings(findings) == JSON("array", NoNodes, <<>>, EncodeFindings(findings))

NoError == "nil"
JSONError == "json: cannot unmarshal"
ReadError == "open: no such file or directory"
ParseError == "failed to parse snapshot as GraphSnapshot or []Finding"

(* json.Unmarshal(data, &snapshot): an object fills the three fields,      *)
(* null leaves them nil, anything else is an error.                        *)
UnmarshalSnapshot(data) ==
    IF data.shape = "object"
    THEN [err |-> NoError, snapshot |-> GraphSnapshot(Graph(data.nodes, data.edges, data.findings))]
    ELSE IF data.shape = "null"
    THEN [err |-> NoError, snapshot |-> GraphSnapshot(NewUnifiedGraph)]
    ELSE [err |-> JSONError, snapshot |-> GraphSnapshot(NewUnifiedGraph)]

(* json.Unmarshal(data, &findings): an array fills the slice, null leaves  *)
(* it nil, anything else is an error.                                      *)
UnmarshalFindings(data) ==
    IF data.shape = "array" THEN [err |-> NoError, findings |-> data.findings]
    ELSE IF data.shape = "null" THEN [err |-> NoError, findings |-> <<>>]
    ELSE [err |-> JSONError, findings |-> <<>>]

(* LoadSnapshot without the second attempt.                                *)
LoadSnapshotEnvelopeOnly(gr, data) ==
    IF data.shape = "missing" THEN [graph |-> gr, err |-> ReadError]
    ELSE LET env == UnmarshalSnapshot(data)
         IN  IF env.err = NoError
             THEN [graph |-> Graph(env.snapshot.Nodes, env.snapshot.Edges, env.snapshot.Findings),
                   err |-> NoError]
             ELSE [graph |-> gr, err |-> ParseError]

(* LoadSnapshot that assigns the findings of the second attempt before it  *)
(* looks at the attempt's error.                                           *)
LoadSnapshotAssignFirst(gr, data) ==
    IF data.shape = "missing" THEN [graph |-> gr, err |-> ReadError]
    ELSE LET env == UnmarshalSnapshot(data)
         IN  IF /\ env.err = NoError
                /\ (Cardinality(DOMAIN env.snapshot.Nodes) > 0 \/ Len(env.snapshot.Findings) > 0)
             THEN [graph |-> Graph(env.snapshot.Nodes, env.snapshot.Edges, env.snapshot.Findings),
                   err |-> NoError]
             ELSE LET legacy == UnmarshalFindings(data)
                  IN  [graph |-> Graph(gr.Nodes, gr.Edges, legacy.findings),
                       err |-> IF legacy.err # NoError THEN ParseError ELSE NoError]

(* LoadSnapshot on the graph gr: the graph after the call and the error    *)
(* returned.                                                               *)
LoadSnapshotOp(gr, data) ==
    IF data.shape = "missing" THEN [graph |-> gr, err |-> ReadError]
    ELSE LET env == UnmarshalSnapshot(data)
         IN  IF /\ env.err = NoError
                /\ (Cardinality(DOMAIN env.snapshot.Nodes) > 0 \/ Len(env.snapshot.Findings) > 0)
             THEN [graph |-> Graph(env.snapshot.Nodes, env.snapshot.Edges, env.snapshot.Findings),
                   err |-> NoError]
             ELSE LET legacy == UnmarshalFindings(data)
                  IN  IF legacy.err # NoError
                      THEN [graph |-> gr, err |-> ParseError]
                      ELSE [graph |-> Graph(gr.Nodes, gr.Edges, legacy.findings), err |-> NoError]

(***************************************************************************)
(* CompareSnapshot.                                                        *)
(***************************************************************************)
GenerateSignature(f) ==
    f.SourceTool \o Sep \o f.Category \o Sep \o f.Asset \o Sep \o f.Evidence

(* The map a loop of m[GenerateSignature(f)] = f builds: the last finding  *)
(* of each signature.                                                      *)
SignatureMap(findings) ==
    [sig \in {GenerateSignature(findings[i]) : i \in 1..Len(findings)} |->
        LET hits == {i \in 1..Len(findings) : GenerateSignature(findings[i]) = sig}
        IN  findings[CHOOSE j \in hits : \A k \in hits : k <= j]]

(* The orders in which a range over a map with these keys may run.         *)
RangeOrders(keys) ==
    {order \in [1..Cardinality(keys) -> keys] :
        \A i, j \in 1..Cardinality(keys) : order[i] = order[j] => i = j}

SnapshotDiff(new, fixed, unchanged) == [New |-> new, Fixed |-> fixed, Unchanged |-> unchanged]

(* CompareSnapshot that reports the baseline's record of an unchanged      *)
(* finding.                                                                *)
CompareSnapshotBaselineSide(gr, base) ==
    LET baselineMap == SignatureMap(base.Findings)
        currentMap == SignatureMap(gr.Findings)
        inBaseline(f) == GenerateSignature(f) \in DOMAIN baselineMap
        notInBaseline(f) == GenerateSignature(f) \notin DOMAIN baselineMap
        kept == SelectSeq(gr.Findings, inBaseline)
    IN  {SnapshotDiff(SelectSeq(gr.Findings, notInBaseline),
                      [i \in 1..Len(order) |-> baselineMap[order[i]]],
                      [i \in 1..Len(kept) |-> baselineMap[GenerateSignature(kept[i])]]) :
            order \in RangeOrders(DOMAIN baselineMap \ DOMAIN currentMap)}

(* The diffs CompareSnapshot may return, one for each order of the range   *)
(* over baselineMap.                                                       *)
CompareSnapshotOp(gr, base) ==
    LET baselineMap == SignatureMap(base.Findings)
        currentMap == SignatureMap(gr.Findings)
        inBaseline(f) == GenerateSignature(f) \in DOMAIN baselineMap
        notInBaseline(f) == GenerateSignature(f) \notin DOMAIN baselineMap
    IN  {SnapshotDiff(SelectSeq(gr.Findings, notInBaseline),
                      [i \in 1..Len(order) |-> baselineMap[order[i]]],
                      SelectSeq(gr.Findings, inBaseline)) :
            order \in RangeOrders(DOMAIN baselineMap \ DOMAIN currentMap)}

(***************************************************************************)
(* The attack path engine: FindPathsToCriticalAssets, findPath,            *)
(* buildAttackPath.                                                        *)
(***************************************************************************)
startNodeID == "attacker"

(* The threshold of a high or critical finding.                            *)
HighSeverity == 7

PathStep(nodeID, edgeType, description) ==
    [NodeID |-> nodeID, EdgeType |-> edgeType, Description |-> description]

(* Score is never assigned: it keeps the zero value.                       *)
AttackPath(steps) == [Steps |-> steps, Score |-> 0]

(* Targets with a threshold the severity has to exceed.                    *)
TargetsAboveThreshold(gr) ==
    {gr.Findings[i].Asset : i \in {k \in 1..Len(gr.Findings) :
        /\ gr.Findings[k].Severity > HighSeverity
        /\ gr.Findings[k].Asset \in DOMAIN gr.Nodes}}

(* The keys of the targets map: the assets of the findings at or above     *)
(* the threshold that have a node.                                         *)
Targets(gr) ==
    {gr.Findings[i].Asset : i \in {k \in 1..Len(gr.Findings) :
        /\ gr.Findings[k].Severity >= HighSeverity
        /\ gr.Findings[k].Asset \in DOMAIN gr.Nodes}}

(* Expand that queues the neighbour alone, without the path that led to    *)
(* it.                                                                     *)
RECURSIVE ExpandDroppingPath(_, _, _, _, _)
ExpandDroppingPath(edges, i, path, visited, queue) ==
    IF i > Len(edges) THEN [visited |-> visited, queue |-> queue]
    ELSE IF edges[i].SourceID = path[Len(path)] /\ edges[i].TargetID \notin visited
    THEN ExpandDroppingPath(edges, i + 1, path, visited \cup {edges[i].TargetID},
                            Append(queue, <<edges[i].TargetID>>))
    ELSE ExpandDroppingPath(edges, i + 1, path, visited, queue)

(* Expand that queues a neighbour whether it was visited or not.           *)
RECURSIVE ExpandRevisiting(_, _, _, _, _)
ExpandRevisiting(edges, i, path, visited, queue) ==
    IF i > Len(edges) THEN [visited |-> visited, queue |-> queue]
    ELSE IF edges[i].SourceID = path[Len(path)]
    THEN ExpandRevisiting(edges, i + 1, path, visited \cup {edges[i].TargetID},
                          Append(queue, Append(path, edges[i].TargetID)))
    ELSE ExpandRevisiting(edges, i + 1, path, visited, queue)

(* The loop over the edges that looks for the neighbours of node, from     *)
(* edge i on: a target not visited yet is marked and its path queued.      *)
RECURSIVE Expand(_, _, _, _, _)
Expand(edges, i, path, visited, queue) ==
    IF i > Len(edges) THEN [visited |-> visited, queue |-> queue]
    ELSE IF edges[i].SourceID = path[Len(path)] /\ edges[i].TargetID \notin visited
    THEN Expand(edges, i + 1, path, visited \cup {edges[i].TargetID},
                Append(queue, Append(path, edges[i].TargetID)))
    ELSE Expand(edges, i + 1, path, visited, queue)

(* The text buildAttackPath adds for the node of a step.                   *)
NodeInfo(nodes, id) ==
    IF id \notin DOMAIN nodes THEN ""
    ELSE " -> [" \o (IF nodes[id].Label # "" THEN nodes[id].Label ELSE nodes[id].ID)
         \o "] (" \o nodes[id].Type \o ")"

(* BuildStep that takes the type of the last edge between the two          *)
(* vertices.                                                               *)
BuildStepLastEdge(gr, nodeIDs, i) ==
    IF i = 1
    THEN PathStep(nodeIDs[i], "", "Start" \o NodeInfo(gr.Nodes, nodeIDs[i]))
    ELSE LET hits == {k \in 1..Len(gr.Edges) :
                         /\ gr.Edges[k].SourceID = nodeIDs[i - 1]
                         /\ gr.Edges[k].TargetID = nodeIDs[i]}
         IN  IF hits = {}
             THEN PathStep(nodeIDs[i], "", NodeInfo(gr.Nodes, nodeIDs[i]))
             ELSE LET final == CHOOSE k \in hits : \A m \in hits : k >= m
                  IN  PathStep(nodeIDs[i], gr.Edges[final].Type,
                               "exploits " \o gr.Edges[final].Type
                                   \o NodeInfo(gr.Nodes, nodeIDs[i]))

(* The step for place i of the path: the first edge, in the order of       *)
(* Edges, from the vertex before to this one gives the type.               *)
BuildStep(gr, nodeIDs, i) ==
    IF i = 1
    THEN PathStep(nodeIDs[i], "", "Start" \o NodeInfo(gr.Nodes, nodeIDs[i]))
    ELSE LET hits == {k \in 1..Len(gr.Edges) :
                         /\ gr.Edges[k].SourceID = nodeIDs[i - 1]
                         /\ gr.Edges[k].TargetID = nodeIDs[i]}
         IN  IF hits = {}
             THEN PathStep(nodeIDs[i], "", NodeInfo(gr.Nodes, nodeIDs[i]))
             ELSE LET first == CHOOSE k \in hits : \A m \in hits : k <= m
                  IN  PathStep(nodeIDs[i], gr.Edges[first].Type,
                               "exploits " \o gr.Edges[first].Type
                                   \o NodeInfo(gr.Nodes, nodeIDs[i]))

buildAttackPath(gr, nodeIDs) ==
    AttackPath([i \in 1..Len(nodeIDs) |-> BuildStep(gr, nodeIDs, i)])

(* The state of one FindPathsToCriticalAssets call: where it is, the       *)
(* targets its range has still to hand out, the target, queue and visited  *)
(* set of the findPath under way with the number of paths it has taken     *)
(* from the queue, the paths found, and the graph as it was when the call  *)
(* took the read lock.                                                     *)
Search(pc, targets, end, queue, visited, steps, paths, seen) ==
    [pc |-> pc, targets |-> targets, end |-> end, queue |-> queue,
     visited |-> visited, steps |-> steps, paths |-> paths, seen |-> seen]

NoSearch == Search("idle", <<>>, "", <<>>, {}, 0, <<>>, NewUnifiedGraph)

(***************************************************************************)
(* State.  Nodes, Edges and Findings are the fields of the graph the       *)
(* program works on.  last names the operation that ran last; prev and     *)
(* batch record the Findings before the last AddFindings call and its      *)
(* argument; calls is the list of batches ingested since construction,     *)
(* kept where the order of ingestion is compared.  file is the content of  *)
(* the snapshot file; baseline, diff and err are what the last snapshot    *)
(* call gave its caller.  mu is the number of holders of the graph's read  *)
(* lock (a writer holds the lock only inside one step, or, where its       *)
(* statements are steps of their own, mu is -1 while it holds the lock);   *)
(* search is the attack path search under way or finished.  producers,     *)
(* reader, snap and cmp are the goroutines that call AddFindings, a        *)
(* reading method, SaveSnapshot or LoadSnapshot, and CompareSnapshot,      *)
(* each with the statement it has come to and its locals.                  *)
(***************************************************************************)
(* Before a snapshot call has run there is no baseline and no diff: they   *)
(* are written as an empty graph and an empty diff, and last tells.        *)
NoGraph == Graph(NoNodes, <<>>, <<>>)
NoDiff == SnapshotDiff(<<>>, <<>>, <<>>)

g == Graph(Nodes, Edges, Findings)

(* The goroutines that ingest, and a goroutine before its call.            *)
Producers == {"p1", "p2"}
Producer(pc, newFindings, rest) == [pc |-> pc, batch |-> newFindings, rest |-> rest]
Reader(kind, pc, first, rest) == [kind |-> kind, pc |-> pc, first |-> first, rest |-> rest]
SnapCall(op, pc, data) == [op |-> op, pc |-> pc, data |-> data]
Comparison(pc, start, view) == [pc |-> pc, start |-> start, view |-> view]

threads == <<producers, reader, snap, cmp>>

Init ==
    /\ Nodes = NoNodes
    /\ Edges = <<>>
    /\ Findings = <<>>
    /\ file = NoFile
    /\ baseline = NoGraph
    /\ diff = NoDiff
    /\ err = NoError
    /\ last = "NewUnifiedGraph"
    /\ prev = <<>>
    /\ batch = <<>>
    /\ calls = <<>>
    /\ mu = 0
    /\ search = NoSearch
    /\ producers = [p \in Producers |-> Producer("idle", <<>>, <<>>)]
    /\ reader = Reader("", "idle", NoGraph, NoGraph)
    /\ snap = SnapCall("", "idle", NoFile)
    /\ cmp = Comparison("idle", <<>>, <<>>)

(* A writer that does not wait for the readers.                            *)
WriteLockNotTaken == TRUE

(* g.mu.Lock(): a writer gets the lock when no reader holds it.            *)
WriteLock == mu = 0

(* The results of a snapshot call or of a finished search are the          *)
(* caller's locals: the next call on the graph starts without them.        *)
DropResults ==
    /\ baseline' = NoGraph
    /\ diff' = NoDiff
    /\ err' = NoError
    /\ search' = IF mu > 0 THEN search ELSE NoSearch
    /\ mu' = mu
    /\ UNCHANGED threads

AddFindings(newFindings) ==
    LET after == AddFindingsOp(g, newFindings)
    IN  /\ WriteLock
        /\ Nodes' = after.Nodes
        /\ Findings' = after.Findings
        /\ prev' = Findings
        /\ batch' = newFindings
        /\ last' = "AddFindings"
        /\ DropResults
        /\ UNCHANGED <<Edges, file>>

(* The most findings a graph of the model holds, and the findings of a     *)
(* batch that no stored finding matches.                                   *)
MaxFindings == 3

NewIn(findings, newFindings) ==
    {newFindings[j] : j \in {k \in 1..Len(newFindings) :
        /\ \A i \in 1..Len(findings) : ~SameKey(findings[i], newFindings[k])
        /\ \A m \in 1..(k - 1) : ~SameKey(newFindings[m], newFindings[k])}}

Ingest ==
    \E newFindings \in Batches :
        /\ Len(Findings) + Cardinality(NewIn(Findings, newFindings)) <= MaxFindings
        /\ AddFindings(newFindings)
        /\ UNCHANGED calls

Next == Ingest

Spec == Init /\ [][Next]_vars


(***************************************************************************)
(* The graph with its snapshot file: nodes, edges and findings are added,  *)
(* the graph is saved and compared with the baseline a new graph loads     *)
(* from the file, and the program is started anew with the file still      *)
(* there.                                                                  *)
(***************************************************************************)
NoLastCall ==
    /\ prev' = <<>>
    /\ batch' = <<>>

NodeInputs == {Node("attacker", "attacker", "External Attacker / Scanner")}

EdgeInputs == {Edge("attacker", "Asset1", "network_reachability", 1)}

SnapBatches == {<<>>, <<TA1, TA2>>, <<TA1, TA3>>, <<PA, PB>>, <<BAD>>, <<SSH1(5), LYN>>}

(* What else may be in the file the caller names.                          *)
OtherFiles == {NotJSON, JSONNull}

(* The most edges and the most findings a graph with a snapshot file holds. *)
MaxEdges == 1
MaxSnapFindings == 2

AddNode(node) ==
    /\ WriteLock
    /\ Nodes' = PutNode(Nodes, node)
    /\ last' = "AddNode"
    /\ DropResults
    /\ NoLastCall
    /\ UNCHANGED <<Edges, Findings, file, calls>>

AddEdge(edge) ==
    /\ WriteLock
    /\ Edges' = Append(Edges, edge)
    /\ last' = "AddEdge"
    /\ DropResults
    /\ NoLastCall
    /\ UNCHANGED <<Nodes, Findings, file, calls>>

SaveSnapshot ==
    /\ file' = MarshalIndent(GraphSnapshot(g))
    /\ last' = "SaveSnapshot"
    /\ DropResults
    /\ NoLastCall
    /\ UNCHANGED <<Nodes, Edges, Findings, calls>>

(* The save of the findings-only graph.                                    *)
SaveSnapshotLegacy ==
    /\ file' = MarshalIndentFindings(Findings)
    /\ last' = "SaveSnapshotLegacy"
    /\ DropResults
    /\ NoLastCall
    /\ UNCHANGED <<Nodes, Edges, Findings, calls>>

WriteOtherFile(data) ==
    /\ file' = data
    /\ last' = "WriteFile"
    /\ DropResults
    /\ NoLastCall
    /\ UNCHANGED <<Nodes, Edges, Findings, calls>>

(* DiffSnapshotWrapper.Execute: a new graph loads the file and the         *)
(* program's graph is compared with it, unless the load fails.             *)
CompareWithBaseline ==
    LET loaded == LoadSnapshotOp(NewUnifiedGraph, file)
    IN  /\ baseline' = loaded.graph
        /\ err' = loaded.err
        /\ IF loaded.err # NoError
           THEN diff' = NoDiff
           ELSE diff' \in CompareSnapshotOp(g, loaded.graph)
        /\ last' = "CompareWithBaseline"
        /\ NoLastCall
        /\ UNCHANGED <<Nodes, Edges, Findings, file, calls, mu, search, threads>>

(* The program ends and is started again: a new graph, the same file.      *)
Restart ==
    /\ Nodes' = NoNodes
    /\ Edges' = <<>>
    /\ Findings' = <<>>
    /\ last' = "NewUnifiedGraph"
    /\ DropResults
    /\ NoLastCall
    /\ UNCHANGED <<file, calls>>

SnapAddNode == \E node \in NodeInputs : AddNode(node)

SnapAddEdge == \E edge \in EdgeInputs : Len(Edges) < MaxEdges /\ AddEdge(edge)

SnapIngest ==
    \E newFindings \in SnapBatches :
        /\ Len(Findings) + Cardinality(NewIn(Findings, newFindings)) <= MaxSnapFindings
        /\ AddFindings(newFindings)
        /\ UNCHANGED calls

SnapWriteOtherFile == \E data \in OtherFiles : WriteOtherFile(data)

NextSnap ==
    \/ SnapAddNode
    \/ SnapAddEdge
    \/ SnapIngest
    \/ SaveSnapshot
    \/ SaveSnapshotLegacy
    \/ SnapWriteOtherFile
    \/ CompareWithBaseline
    \/ Restart

SnapSpec == Init /\ [][NextSnap]_vars

(***************************************************************************)
(* Ingestion by several tools, one batch each, in any order.               *)
(***************************************************************************)
(* What each tool may hand in: the two Nmap findings of the test, one of   *)
(* them, another host; a Lynis warning; a third tool's finding.            *)
ToolBatches ==
    {<<SSH1(5), HTTP>>, <<SSH1(5)>>, <<SSH2>>, <<HTTP>>, <<LYN>>, <<LYNU>>, <<TA1>>, <<TA1, TA3>>}

ToolOf(newFindings) == newFindings[1].SourceTool

IngestByTool ==
    \E newFindings \in ToolBatches :
        /\ \A i \in 1..Len(calls) : ToolOf(calls[i]) # ToolOf(newFindings)
        /\ AddFindings(newFindings)
        /\ calls' = Append(calls, newFindings)

NextOrder == IngestByTool

OrderSpec == Init /\ [][NextOrder]_vars

(***************************************************************************)
(* The graph with the attack path search: producers add the attacker       *)
(* node, edges and findings; a search takes the read lock, works through   *)
(* its targets one findPath loop turn at a time, and returns.              *)
(***************************************************************************)
(* Findings on a host, on a service of it and on the attacker vertex, at   *)
(* or above the threshold, and one below it.                               *)
FH1 == Finding("nmap-445", NmapTool, "network", 8, "", "H1", "Port 445/tcp is open (Service: microsoft-ds)", "", <<>>)
FS1 == Finding("nikto-1", "Nikto", "web", 7, "", "S1", "Outdated server banner", "", <<>>)
FH1low == Finding("nmap-80", NmapTool, "network", 6, "", "H1", "Port 80/tcp is open (Service: http)", "", <<>>)
FATT == Finding("gitleaks-1", "Gitleaks", "secrets", 9, "", "attacker", "Hardcoded token", "", <<>>)

PathBatches == {<<FH1>>, <<FS1>>, <<FATT, FH1low>>}

(* The edges of the scanner (attacker to host, host to service), a second  *)
(* edge of another type between the same two vertices, a way back, a       *)
(* short cut and a self-loop.                                              *)
PathEdgeInputs ==
    {Edge("attacker", "H1", "network_reachability", 1),
     Edge("H1", "S1", "exposes", 1),
     Edge("attacker", "H1", "credentials", 5),
     Edge("H1", "attacker", "connects_to", 1),
     Edge("attacker", "S1", "network_reachability", 2),
     Edge("attacker", "attacker", "runs", 1)}

(* The most edges and the most findings a graph that is searched holds.    *)
MaxPathEdges == 3
MaxPathFindings == 2

PathAddNode == \E node \in NodeInputs : AddNode(node)

PathAddEdge ==
    \E edge \in PathEdgeInputs :
        /\ Len(Edges) < MaxPathEdges
        /\ \A i \in 1..Len(Edges) : Edges[i] # edge
        /\ AddEdge(edge)

PathIngest ==
    \E newFindings \in PathBatches :
        /\ Len(Findings) + Cardinality(NewIn(Findings, newFindings)) <= MaxPathFindings
        /\ AddFindings(newFindings)
        /\ UNCHANGED calls

(* What every step of the search leaves alone.                             *)
SearchFrame ==
    /\ last' = "FindPathsToCriticalAssets"
    /\ NoLastCall
    /\ UNCHANGED <<Nodes, Edges, Findings, file, baseline, diff, err, calls, threads>>

(* ape.Graph.mu.RLock()                                                    *)
FindPathsRLock ==
    /\ search.pc \in {"idle", "done"}
    /\ mu' = mu + 1
    /\ search' = Search("locked", <<>>, "", <<>>, {}, 0, <<>>, g)
    /\ SearchFrame

(* FindPathsStart without the look-up of the start node.                   *)
FindPathsStartUnchecked ==
    /\ search.pc = "locked"
    /\ \E order \in RangeOrders(Targets(g)) :
           search' = [search EXCEPT !.pc = "range", !.targets = order]
    /\ UNCHANGED mu
    /\ SearchFrame

(* The start node is looked up and the targets map is filled; the range    *)
(* over the map will hand out its keys in some order.                      *)
FindPathsStart ==
    /\ search.pc = "locked"
    /\ IF startNodeID \notin DOMAIN Nodes
       THEN search' = [search EXCEPT !.pc = "return"]
       ELSE \E order \in RangeOrders(Targets(g)) :
                search' = [search EXCEPT !.pc = "range", !.targets = order]
    /\ UNCHANGED mu
    /\ SearchFrame

(* FindPathsNextTarget that searches a path to the start vertex too.       *)
FindPathsNextTargetNoSkip ==
    /\ search.pc = "range"
    /\ IF search.targets = <<>>
       THEN search' = [search EXCEPT !.pc = "return"]
       ELSE search' = [search EXCEPT !.pc = "bfs", !.targets = Tail(@),
                                     !.end = Head(search.targets),
                                     !.queue = <<(<<startNodeID>>)>>,
                                     !.visited = {startNodeID},
                                     !.steps = 0]
    /\ UNCHANGED mu
    /\ SearchFrame

(* One turn of the range over targets, up to the call of findPath.         *)
FindPathsNextTarget ==
    /\ search.pc = "range"
    /\ IF search.targets = <<>>
       THEN search' = [search EXCEPT !.pc = "return"]
       ELSE LET targetID == Head(search.targets)
            IN  IF targetID = startNodeID
                THEN search' = [search EXCEPT !.targets = Tail(@)]
                ELSE search' = [search EXCEPT !.pc = "bfs", !.targets = Tail(@),
                                              !.end = targetID,
                                              !.queue = <<(<<startNodeID>>)>>,
                                              !.visited = {startNodeID},
                                              !.steps = 0]
    /\ UNCHANGED mu
    /\ SearchFrame

(* One turn of the loop of findPath; when the loop ends, with a path or    *)
(* with nil, the caller appends the path and goes on with its range.       *)
findPathStep ==
    /\ search.pc = "bfs"
    /\ IF search.queue = <<>>
       THEN search' = [search EXCEPT !.pc = "range", !.end = "", !.visited = {}, !.steps = 0]
       ELSE LET path == Head(search.queue)
                node == path[Len(path)]
            IN  IF node = search.end
                THEN search' = [search EXCEPT !.pc = "range", !.end = "", !.queue = <<>>,
                                              !.visited = {}, !.steps = 0,
                                              !.paths = Append(@, buildAttackPath(g, path))]
                ELSE LET grown == Expand(Edges, 1, path, search.visited, Tail(search.queue))
                     IN  search' = [search EXCEPT !.queue = grown.queue,
                                                  !.visited = grown.visited,
                                                  !.steps = @ + 1]
    /\ UNCHANGED mu
    /\ SearchFrame

(* return paths, and the deferred RUnlock.                                 *)
FindPathsReturn ==
    /\ search.pc = "return"
    /\ search' = [search EXCEPT !.pc = "done"]
    /\ mu' = mu - 1
    /\ SearchFrame

NextPath ==
    \/ PathAddNode
    \/ PathAddEdge
    \/ PathIngest
    \/ FindPathsRLock
    \/ FindPathsStart
    \/ FindPathsNextTarget
    \/ findPathStep
    \/ FindPathsReturn

PathSpec == Init /\ [][NextPath]_vars


(* A step of a search under way.  The goroutine that runs the search is    *)
(* scheduled again and again and nothing blocks it once it holds the read  *)
(* lock, so its next step is taken in the end.                             *)
SearchStep ==
    \/ FindPathsStart
    \/ FindPathsNextTarget
    \/ findPathStep
    \/ FindPathsReturn

FairPathSpec == PathSpec /\ WF_vars(SearchStep)
(***************************************************************************)
(* A producer that calls AddFindings again and again, the batches of all   *)
(* calls on record.                                                        *)
(***************************************************************************)
(* The open-SSH finding at the lowest severity, the Lynis warning, a       *)
(* second open-SSH finding, and a call that brings nothing.                *)
HistoryBatches == {<<>>, <<SSH1(0)>>, <<LYN>>, <<SSH2>>}

(* The most calls of a run.                                                *)
MaxCalls == 7

IngestRecorded ==
    \E newFindings \in HistoryBatches :
        /\ Len(calls) < MaxCalls
        /\ AddFindings(newFindings)
        /\ calls' = Append(calls, newFindings)

HistorySpec == Init /\ [][IngestRecorded]_vars

(***************************************************************************)
(* A graph that is filled, saved in either schema and loaded again from    *)
(* the file, whatever it holds when LoadSnapshot is called.                *)
(***************************************************************************)
LoadSnapshot ==
    LET loaded == LoadSnapshotOp(g, file)
    IN  /\ WriteLock
        /\ Nodes' = loaded.graph.Nodes
        /\ Edges' = loaded.graph.Edges
        /\ Findings' = loaded.graph.Findings
        /\ err' = loaded.err
        /\ last' = "LoadSnapshot"
        /\ baseline' = NoGraph
        /\ diff' = NoDiff
        /\ search' = IF mu > 0 THEN search ELSE NoSearch
        /\ NoLastCall
        /\ UNCHANGED <<file, calls, mu, threads>>

NextLoad ==
    \/ SnapAddNode
    \/ SnapAddEdge
    \/ SnapIngest
    \/ SaveSnapshot
    \/ SaveSnapshotLegacy
    \/ SnapWriteOtherFile
    \/ LoadSnapshot

LoadSpec == Init /\ [][NextLoad]_vars

(***************************************************************************)
(* Producers and a reader on one graph, statement by statement.  Each      *)
(* producer calls AddFindings once: it takes the lock, ingests the         *)
(* findings of its batch one by one, runs the correlation pass and         *)
(* returns, which releases the lock.  The reader calls one of the methods  *)
(* that take the read lock first and release it as they return, and reads  *)
(* the graph at two of its statements.                                     *)
(***************************************************************************)
(* What a producer may hand in: both sides of the correlation rule, in     *)
(* either order and with either open-SSH finding, or one side alone.       *)
LockBatches == {<<SSH1(2), LYN>>, <<LYN, SSH2>>, <<SSH2>>}

ReaderKinds == {"GetReport", "SaveSnapshot", "CompareSnapshot", "FindPathsToCriticalAssets"}

(* A reader that does not wait for the writer.                             *)
ReadLockNotTaken == TRUE

(* g.mu.RLock(): a reader gets the lock when no writer holds it.           *)
ReadLock == mu >= 0

(* g.mu.Lock() of AddFindings.                                             *)
AddFindingsLock(p) ==
    \E newFindings \in LockBatches :
        /\ producers[p].pc = "idle"
        /\ WriteLock
        /\ mu' = -1
        /\ producers' = [producers EXCEPT ![p] = Producer("loop", newFindings, newFindings)]
        /\ last' = "AddFindings"
        /\ NoLastCall
        /\ UNCHANGED <<file, baseline, diff, err, search, snap, cmp>>
        /\ UNCHANGED <<Nodes, Edges, Findings, calls, reader>>

(* One turn of the loop over newFindings.                                  *)
AddFindingsLoop(p) ==
    /\ producers[p].pc = "loop"
    /\ producers[p].rest # <<>>
    /\ LET after == IngestOne(g, Head(producers[p].rest))
       IN  /\ Nodes' = after.Nodes
           /\ Findings' = after.Findings
    /\ producers' = [producers EXCEPT ![p].rest = Tail(@)]
    /\ last' = "AddFindings"
    /\ NoLastCall
    /\ UNCHANGED <<file, baseline, diff, err, search, snap, cmp>>
    /\ UNCHANGED <<Edges, calls, mu, reader>>

(* g.detectRelationships(), when the loop has ended.                       *)
AddFindingsCorrelate(p) ==
    /\ producers[p].pc = "loop"
    /\ producers[p].rest = <<>>
    /\ Findings' = detectRelationships(Findings)
    /\ producers' = [producers EXCEPT ![p].pc = "return"]
    /\ last' = "AddFindings"
    /\ NoLastCall
    /\ UNCHANGED <<file, baseline, diff, err, search, snap, cmp>>
    /\ UNCHANGED <<Nodes, Edges, calls, mu, reader>>

(* The deferred g.mu.Unlock().                                             *)
AddFindingsUnlock(p) ==
    /\ producers[p].pc = "return"
    /\ mu' = 0
    /\ producers' = [producers EXCEPT ![p].pc = "done"]
    /\ calls' = Append(calls, producers[p].batch)
    /\ last' = "AddFindings"
    /\ NoLastCall
    /\ UNCHANGED <<file, baseline, diff, err, search, snap, cmp>>
    /\ UNCHANGED <<Nodes, Edges, Findings, reader>>

(* g.mu.RLock() of a reading method.                                       *)
ReadRLock ==
    \E kind \in ReaderKinds :
        /\ reader.pc = "idle"
        /\ ReadLock
        /\ mu' = mu + 1
        /\ reader' = Reader(kind, "locked", NoGraph, NoGraph)
        /\ last' = kind
        /\ NoLastCall
        /\ UNCHANGED <<file, baseline, diff, err, search, snap, cmp>>
        /\ UNCHANGED <<Nodes, Edges, Findings, calls, producers>>

(* The method's first look at the graph: the count in the report's head,   *)
(* the snapshot's fields, the map of current signatures, the targets.      *)
ReadFirst ==
    /\ reader.pc = "locked"
    /\ reader' = [reader EXCEPT !.pc = "reading", !.first = g]
    /\ last' = reader.kind
    /\ NoLastCall
    /\ UNCHANGED <<file, baseline, diff, err, search, snap, cmp>>
    /\ UNCHANGED <<Nodes, Edges, Findings, calls, mu, producers>>

(* Its later look: the loop over the findings, the encoding, the search.   *)
ReadRest ==
    /\ reader.pc = "reading"
    /\ reader' = [reader EXCEPT !.pc = "return", !.rest = g]
    /\ last' = reader.kind
    /\ NoLastCall
    /\ UNCHANGED <<file, baseline, diff, err, search, snap, cmp>>
    /\ UNCHANGED <<Nodes, Edges, Findings, calls, mu, producers>>

(* The deferred g.mu.RUnlock(); the caller has the result.                 *)
ReadRUnlock ==
    /\ reader.pc = "return"
    /\ mu' = mu - 1
    /\ reader' = [reader EXCEPT !.pc = "idle"]
    /\ last' = reader.kind
    /\ NoLastCall
    /\ UNCHANGED <<file, baseline, diff, err, search, snap, cmp>>
    /\ UNCHANGED <<Nodes, Edges, Findings, calls, producers>>

NextLock ==
    \/ \E p \in Producers : AddFindingsLock(p)
    \/ \E p \in Producers : AddFindingsLoop(p)
    \/ \E p \in Producers : AddFindingsCorrelate(p)
    \/ \E p \in Producers : AddFindingsUnlock(p)
    \/ ReadRLock
    \/ ReadFirst
    \/ ReadRest
    \/ ReadRUnlock

LockSpec == Init /\ [][NextLock]_vars

(***************************************************************************)
(* SaveSnapshot and LoadSnapshot statement by statement, beside producers  *)
(* that add nodes, edges and findings.                                     *)
(***************************************************************************)
(* g.mu.RLock() of SaveSnapshot.                                           *)
SaveSnapshotRLock ==
    /\ snap.pc = "idle"
    /\ ReadLock
    /\ mu' = mu + 1
    /\ snap' = SnapCall("SaveSnapshot", "copy", NoFile)
    /\ last' = "SaveSnapshot"
    /\ NoLastCall
    /\ UNCHANGED <<baseline, diff, search, calls, producers, reader, cmp>>
    /\ UNCHANGED <<Nodes, Edges, Findings, file, err>>

(* snapshot := GraphSnapshot{...}: the map and the slices of the graph.    *)
SaveSnapshotCopy ==
    /\ snap.op = "SaveSnapshot" /\ snap.pc = "copy"
    /\ snap' = [snap EXCEPT !.pc = "marshal"]
    /\ last' = "SaveSnapshot"
    /\ NoLastCall
    /\ UNCHANGED <<baseline, diff, search, calls, producers, reader, cmp>>
    /\ UNCHANGED <<Nodes, Edges, Findings, file, err, mu>>

(* json.MarshalIndent(snapshot, "", "  ")                                  *)
SaveSnapshotMarshal ==
    /\ snap.op = "SaveSnapshot" /\ snap.pc = "marshal"
    /\ snap' = [snap EXCEPT !.pc = "write", !.data = MarshalIndent(GraphSnapshot(g))]
    /\ last' = "SaveSnapshot"
    /\ NoLastCall
    /\ UNCHANGED <<baseline, diff, search, calls, producers, reader, cmp>>
    /\ UNCHANGED <<Nodes, Edges, Findings, file, err, mu>>

(* os.WriteFile(path, data, 0644)                                          *)
SaveSnapshotWriteFile ==
    /\ snap.op = "SaveSnapshot" /\ snap.pc = "write"
    /\ file' = snap.data
    /\ err' = NoError
    /\ snap' = [snap EXCEPT !.pc = "return"]
    /\ last' = "SaveSnapshot"
    /\ NoLastCall
    /\ UNCHANGED <<baseline, diff, search, calls, producers, reader, cmp>>
    /\ UNCHANGED <<Nodes, Edges, Findings, mu>>

(* The deferred g.mu.RUnlock().                                            *)
SaveSnapshotRUnlock ==
    /\ snap.op = "SaveSnapshot" /\ snap.pc = "return"
    /\ mu' = mu - 1
    /\ snap' = SnapCall("", "idle", NoFile)
    /\ last' = "SaveSnapshot"
    /\ NoLastCall
    /\ UNCHANGED <<baseline, diff, search, calls, producers, reader, cmp>>
    /\ UNCHANGED <<Nodes, Edges, Findings, file, err>>

(* g.mu.Lock() of LoadSnapshot.                                            *)
LoadSnapshotLock ==
    /\ snap.pc = "idle"
    /\ WriteLock
    /\ mu' = -1
    /\ snap' = SnapCall("LoadSnapshot", "read", NoFile)
    /\ last' = "LoadSnapshot"
    /\ NoLastCall
    /\ UNCHANGED <<baseline, diff, search, calls, producers, reader, cmp>>
    /\ UNCHANGED <<Nodes, Edges, Findings, file, err>>

(* os.ReadFile(path)                                                       *)
LoadSnapshotReadFile ==
    /\ snap.op = "LoadSnapshot" /\ snap.pc = "read"
    /\ snap' = [snap EXCEPT !.pc = "parse", !.data = file]
    /\ last' = "LoadSnapshot"
    /\ NoLastCall
    /\ UNCHANGED <<baseline, diff, search, calls, producers, reader, cmp>>
    /\ UNCHANGED <<Nodes, Edges, Findings, file, err, mu>>

(* The two json.Unmarshal attempts and the assignments to the graph.       *)
LoadSnapshotParse ==
    /\ snap.op = "LoadSnapshot" /\ snap.pc = "parse"
    /\ LET loaded == LoadSnapshotOp(g, snap.data)
       IN  /\ Nodes' = loaded.graph.Nodes
           /\ Edges' = loaded.graph.Edges
           /\ Findings' = loaded.graph.Findings
           /\ err' = loaded.err
    /\ snap' = [snap EXCEPT !.pc = "return"]
    /\ last' = "LoadSnapshot"
    /\ NoLastCall
    /\ UNCHANGED <<baseline, diff, search, calls, producers, reader, cmp>>
    /\ UNCHANGED <<file, mu>>

(* The deferred g.mu.Unlock().                                             *)
LoadSnapshotUnlock ==
    /\ snap.op = "LoadSnapshot" /\ snap.pc = "return"
    /\ mu' = 0
    /\ snap' = SnapCall("", "idle", NoFile)
    /\ last' = "LoadSnapshot"
    /\ NoLastCall
    /\ UNCHANGED <<baseline, diff, search, calls, producers, reader, cmp>>
    /\ UNCHANGED <<Nodes, Edges, Findings, file, err>>

NextIO ==
    \/ SnapAddNode
    \/ SnapAddEdge
    \/ SnapIngest
    \/ SaveSnapshotRLock
    \/ SaveSnapshotCopy
    \/ SaveSnapshotMarshal
    \/ SaveSnapshotWriteFile
    \/ SaveSnapshotRUnlock
    \/ LoadSnapshotLock
    \/ LoadSnapshotReadFile
    \/ LoadSnapshotParse
    \/ LoadSnapshotUnlock

IOSpec == Init /\ [][NextIO]_vars

(***************************************************************************)
(* CompareSnapshot statement by statement, on a current graph and a        *)
(* baseline graph that both have producers.  A producer of the baseline    *)
(* takes the baseline's own lock, which CompareSnapshot does not take:     *)
(* that lock is never contended here, and a call on the baseline is one    *)
(* step.                                                                   *)
(***************************************************************************)
(* What the producers hand in: to the current graph the two findings of    *)
(* the snapshot test, to the baseline these and the two sides of the       *)
(* correlation rule in two calls.                                          *)
BaselineBatches == {<<TA1, TA2>>, <<SSH1(5)>>, <<LYN>>}

(* AddFindings on the current graph.                                       *)
CurrentAddFindings ==
    \E newFindings \in {<<TA1, TA2>>} :
        LET after == AddFindingsOp(g, newFindings)
        IN  /\ WriteLock
            /\ Len(after.Findings) <= MaxSnapFindings
            /\ Nodes' = after.Nodes
            /\ Findings' = after.Findings
            /\ last' = "AddFindings"
            /\ NoLastCall
            /\ UNCHANGED <<search, calls, producers, reader, snap>>
            /\ UNCHANGED <<Edges, file, baseline, diff, err, mu, cmp>>

(* SaveSnapshot on the current graph.                                      *)
CurrentSaveSnapshot ==
    /\ ReadLock
    /\ file' = MarshalIndent(GraphSnapshot(g))
    /\ last' = "SaveSnapshot"
    /\ NoLastCall
    /\ UNCHANGED <<search, calls, producers, reader, snap>>
    /\ UNCHANGED <<Nodes, Edges, Findings, baseline, diff, err, mu, cmp>>

(* AddFindings on the baseline graph, under the baseline's lock.           *)
BaselineAddFindings ==
    \E newFindings \in BaselineBatches :
        LET after == AddFindingsOp(baseline, newFindings)
        IN  /\ Len(after.Findings) <= MaxSnapFindings
            /\ baseline' = after
            /\ last' = "baseline.AddFindings"
            /\ NoLastCall
            /\ UNCHANGED <<search, calls, producers, reader, snap>>
            /\ UNCHANGED <<Nodes, Edges, Findings, file, diff, err, mu, cmp>>

(* LoadSnapshot on the baseline graph, under the baseline's lock.          *)
BaselineLoadSnapshot ==
    LET loaded == LoadSnapshotOp(baseline, file)
    IN  /\ baseline' = loaded.graph
        /\ err' = loaded.err
        /\ last' = "baseline.LoadSnapshot"
        /\ NoLastCall
        /\ UNCHANGED <<search, calls, producers, reader, snap>>
        /\ UNCHANGED <<Nodes, Edges, Findings, file, diff, mu, cmp>>

(* g.mu.RLock() of CompareSnapshot, and the range expression of the first  *)
(* loop: the baseline's slice of findings as it is now.                    *)
CompareRLock ==
    /\ cmp.pc = "idle"
    /\ ReadLock
    /\ mu' = mu + 1
    /\ cmp' = Comparison("baseline", baseline.Findings, <<>>)
    /\ last' = "CompareSnapshot"
    /\ NoLastCall
    /\ UNCHANGED <<search, calls, producers, reader, snap>>
    /\ UNCHANGED <<Nodes, Edges, Findings, file, baseline, diff, err>>

(* One turn of the loop over baseline.Findings.  The loop reads the        *)
(* elements without the baseline's lock: beside a producer of the baseline *)
(* the read races with the producer's write and gives the element as it    *)
(* was when the loop began or as it is now.                                *)
CompareReadBaseline ==
    /\ cmp.pc = "baseline"
    /\ Len(cmp.view) < Len(cmp.start)
    /\ LET i == Len(cmp.view) + 1
       IN  \E f \in {cmp.start[i]} \cup
                    (IF i <= Len(baseline.Findings) THEN {baseline.Findings[i]} ELSE {}) :
               cmp' = [cmp EXCEPT !.view = Append(@, f)]
    /\ last' = "CompareSnapshot"
    /\ NoLastCall
    /\ UNCHANGED <<search, calls, producers, reader, snap>>
    /\ UNCHANGED <<Nodes, Edges, Findings, file, baseline, diff, err, mu>>

(* The loops over g.Findings and over the map of the baseline.             *)
CompareReadCurrent ==
    /\ cmp.pc = "baseline"
    /\ Len(cmp.view) = Len(cmp.start)
    /\ diff' \in CompareSnapshotOp(g, Graph(NoNodes, <<>>, cmp.view))
    /\ cmp' = [cmp EXCEPT !.pc = "return"]
    /\ last' = "CompareSnapshot"
    /\ NoLastCall
    /\ UNCHANGED <<search, calls, producers, reader, snap>>
    /\ UNCHANGED <<Nodes, Edges, Findings, file, baseline, err, mu>>

(* return diff, and the deferred g.mu.RUnlock().                           *)
CompareRUnlock ==
    /\ cmp.pc = "return"
    /\ mu' = mu - 1
    /\ cmp' = [cmp EXCEPT !.pc = "idle"]
    /\ last' = "CompareSnapshot"
    /\ NoLastCall
    /\ UNCHANGED <<search, calls, producers, reader, snap>>
    /\ UNCHANGED <<Nodes, Edges, Findings, file, baseline, diff, err>>

NextCompare ==
    \/ CurrentAddFindings
    \/ CurrentSaveSnapshot
    \/ BaselineAddFindings
    \/ BaselineLoadSnapshot
    \/ CompareRLock
    \/ CompareReadBaseline
    \/ CompareReadCurrent
    \/ CompareRUnlock

CompareSpec == Init /\ [][NextCompare]_vars

(***************************************************************************)
(* The statements checked.  They name the rule in the specification's      *)
(* words, not through the operators above.                                 *)
(***************************************************************************)
CriticalMarker == "CRITICAL: Combined with Weak Crypto Policy"

Clamped(s) == IF s < 1 THEN 1 ELSE IF s > 10 THEN 10 ELSE s

CappedBoost(s) == IF s + 2 > 10 THEN 10 ELSE s + 2

(* sourceTool = "Nmap", evidence containing "22/tcp" and "open".           *)
NmapOpenSSH(f) ==
    f.SourceTool = NmapTool /\ Contains(f.Evidence, Port22) /\ Contains(f.Evidence, OpenWord)

(* sourceTool = "Lynis", evidence containing "crypto" in any letter case.  *)
LynisCrypto(f) ==
    f.SourceTool = LynisTool /\ Contains(ToLower(f.Evidence), CryptoWord)

SameSignature(a, b) ==
    <<a.SourceTool, a.Category, a.Asset, a.Evidence>> = <<b.SourceTool, b.Category, b.Asset, b.Evidence>>

(* The places of a batch that carry the signature of f, and the last of    *)
(* them with its severity clamped.                                         *)
PlacesIn(newFindings, f) == {j \in 1..Len(newFindings) : SameSignature(newFindings[j], f)}

LatestIn(newFindings, f) ==
    LET j == CHOOSE m \in PlacesIn(newFindings, f) : \A k \in PlacesIn(newFindings, f) : k <= m
    IN  [newFindings[j] EXCEPT !.Severity = Clamped(@)]

(* The stored finding the correlation pass picks: the last one in the      *)
(* sequence that matches the open-SSH test (0: none).                      *)
PickedSSH(findings) ==
    LET hits == {i \in 1..Len(findings) : NmapOpenSSH(findings[i])}
    IN  IF hits = {} THEN 0 ELSE CHOOSE i \in hits : \A k \in hits : k <= i

CryptoStored(findings) == \E i \in 1..Len(findings) : LynisCrypto(findings[i])

(* f after one escalation: two more, at most ten, and the suffix; a        *)
(* finding already at ten is left as it is.                                *)
EscalatedOnce(f) ==
    IF f.Severity < 10
    THEN [f EXCEPT !.Severity = CappedBoost(@), !.RemediationHint = @ \o CriticalSuffix]
    ELSE f

(* The stored finding at place i was ingested by the last call with a      *)
(* signature already stored before the call or occurring earlier in the    *)
(* batch.                                                                  *)
Reingested(i) ==
    \/ i <= Len(prev) /\ PlacesIn(batch, prev[i]) # {}
    \/ Cardinality(PlacesIn(batch, Findings[i])) >= 2

(* The last call ingested Lynis crypto findings and nothing else.          *)
LynisCryptoBatch == batch # <<>> /\ \A j \in 1..Len(batch) : LynisCrypto(batch[j])

(* C1: after any sequence of AddFindings calls, whatever the input         *)
(* severities, every stored finding has a severity from 1 to 10.           *)
C1_SeverityInRange ==
    \A i \in 1..Len(Findings) : Findings[i].Severity >= 1 /\ Findings[i].Severity <= 10

(* C1 witness: the last batch carried a severity outside 1..10, and the    *)
(* correlation pass has raised a stored finding to the cap.                *)
C1_Witness ==
    /\ last = "AddFindings"
    /\ \E j \in 1..Len(batch) : batch[j].Severity > 10 \/ batch[j].Severity < 1
    /\ \E i \in 1..Len(Findings) :
          Findings[i].Severity = 10 /\ Contains(Findings[i].RemediationHint, CriticalMarker)

(* C2 as stated: a finding whose signature is already stored does not      *)
(* change the number of findings, and the stored record is the latest      *)
(* ingested one (its severity clamped), field for field.                   *)
C2_LatestIngestionWins ==
    last = "AddFindings" =>
        /\ (\A j \in 1..Len(batch) : \E i \in 1..Len(prev) : SameSignature(prev[i], batch[j]))
              => Len(Findings) = Len(prev)
        /\ \A i \in 1..Len(Findings) :
              Reingested(i) =>
                  /\ Cardinality({k \in 1..Len(Findings) : SameSignature(Findings[k], Findings[i])}) = 1
                  /\ Findings[i] = LatestIn(batch, Findings[i])

(* C2 as amended: the same, except that the correlation pass ending the    *)
(* call has escalated the record when it is the open-SSH finding the pass  *)
(* picks and a Lynis crypto finding is stored.  No field of the record     *)
(* replaced survives.                                                      *)
C2_LatestIngestionWinsThenEscalated ==
    last = "AddFindings" =>
        /\ (\A j \in 1..Len(batch) : \E i \in 1..Len(prev) : SameSignature(prev[i], batch[j]))
              => Len(Findings) = Len(prev)
        /\ \A i \in 1..Len(prev) : SameSignature(Findings[i], prev[i])
        /\ \A i \in 1..Len(Findings) :
              Reingested(i) =>
                  /\ Cardinality({k \in 1..Len(Findings) : SameSignature(Findings[k], Findings[i])}) = 1
                  /\ Findings[i] = IF i = PickedSSH(Findings) /\ CryptoStored(Findings)
                                   THEN EscalatedOnce(LatestIn(batch, Findings[i]))
                                   ELSE LatestIn(batch, Findings[i])

(* C2 witness: a stored finding was ingested again with other values in    *)
(* every other field, and the stored record now carries the new ones.      *)
C2_Witness ==
    /\ last = "AddFindings"
    /\ \E i \in 1..Len(prev) :
          /\ PlacesIn(batch, prev[i]) # {}
          /\ Len(Findings) = Len(prev)
          /\ Findings[i].ID # prev[i].ID
          /\ Findings[i].Confidence # prev[i].Confidence
          /\ Findings[i].RemediationHint # prev[i].RemediationHint
          /\ Findings[i].ComplianceList # prev[i].ComplianceList
          /\ Findings[i].Severity # prev[i].Severity

(* C3 as stated: for every s in 1..10, an open-SSH Nmap finding stored at  *)
(* severity s has severity min(s+2, 10) and the marker in its hint after   *)
(* a call that ingests a Lynis crypto finding.                             *)
C3_EscalatedAtEverySeverity ==
    last = "AddFindings" =>
        \A i \in 1..Len(prev) :
            (NmapOpenSSH(prev[i]) /\ LynisCryptoBatch) =>
                /\ Findings[i].Severity = CappedBoost(prev[i].Severity)
                /\ Contains(Findings[i].RemediationHint, CriticalMarker)

(* C3 as amended: it holds of the open-SSH finding the pass picks (the     *)
(* last one stored when the call ends), when the batch does not ingest     *)
(* that finding again, for s in 1..9, the suffix being appended to the     *)
(* hint; at s = 10 the finding is left as it is, and no other stored       *)
(* open-SSH finding is changed.                                            *)
C3_PickedFindingEscalatedBelowTen ==
    last = "AddFindings" =>
        \A i \in 1..Len(prev) :
            (/\ NmapOpenSSH(prev[i])
             /\ \E j \in 1..Len(batch) : LynisCrypto(batch[j])
             /\ PlacesIn(batch, prev[i]) = {}) =>
                IF i = PickedSSH(Findings) /\ prev[i].Severity < 10
                THEN /\ Findings[i].Severity = CappedBoost(prev[i].Severity)
                     /\ Findings[i].RemediationHint = prev[i].RemediationHint \o CriticalSuffix
                     /\ Contains(Findings[i].RemediationHint, CriticalMarker)
                ELSE Findings[i] = prev[i]

(* C3 witness: the case of the test, a stored open-SSH finding escalated   *)
(* by a batch that brings the Lynis finding, here from 9 to the cap.       *)
C3_Witness ==
    /\ last = "AddFindings"
    /\ \E i \in 1..Len(prev) :
          /\ NmapOpenSSH(prev[i])
          /\ \E j \in 1..Len(batch) : LynisCrypto(batch[j])
          /\ PlacesIn(batch, prev[i]) = {}
          /\ prev[i].Severity = 9
          /\ Findings[i].Severity = 10

(***************************************************************************)
(* Order of ingestion and repeated ingestion.                              *)
(***************************************************************************)
RECURSIVE Replay(_, _)
Replay(gr, batches) ==
    IF batches = <<>> THEN gr
    ELSE Replay(AddFindingsOp(gr, Head(batches)), Tail(batches))

Orders(n) == {p \in [1..n -> 1..n] : \A i, j \in 1..n : p[i] = p[j] => i = j}

FindingSet(findings) == {findings[i] : i \in 1..Len(findings)}

(* C4: the batches ingested so far, one per tool, would have left the      *)
(* same stored findings, with the same severity and hint on each, had      *)
(* they been ingested in any other order.                                  *)
C4_OrderOfToolsIrrelevant ==
    \A p \in Orders(Len(calls)) :
        FindingSet(Replay(NewUnifiedGraph, [i \in 1..Len(calls) |-> calls[p[i]]]).Findings)
            = FindingSet(Findings)

(* C5: a second AddFindings call with the batch just ingested leaves the   *)
(* graph as the first call left it.                                        *)
C5_SecondCallChangesNothing ==
    last = "AddFindings" => AddFindingsOp(g, batch) = g

(* The last call ingested data that was already stored: the batch holds    *)
(* an open-SSH finding and a Lynis crypto finding, and the signature of    *)
(* each of its findings was stored before the call.                        *)
RepeatOfQualifyingData ==
    /\ last = "AddFindings"
    /\ \E j \in 1..Len(batch) : NmapOpenSSH(batch[j])
    /\ \E j \in 1..Len(batch) : LynisCrypto(batch[j])
    /\ \A j \in 1..Len(batch) : \E i \in 1..Len(prev) : SameSignature(prev[i], batch[j])

(* C6 as stated: every ingestion of the qualifying batch after the first   *)
(* adds 2 (capped at 10) to the stored SSH finding's severity and one      *)
(* more copy of the suffix to its hint.                                    *)
C6_EveryRepeatEscalatesFurther ==
    RepeatOfQualifyingData =>
        \A i \in 1..Len(prev) :
            (NmapOpenSSH(prev[i]) /\ PlacesIn(batch, prev[i]) # {}) =>
                /\ Findings[i].Severity = CappedBoost(prev[i].Severity)
                /\ Findings[i].RemediationHint = prev[i].RemediationHint \o CriticalSuffix

(* C6 as amended: the escalation is applied again at every call made       *)
(* while a Lynis crypto finding is stored, to the open-SSH finding the     *)
(* pass picks: when the batch does not hold that finding, on top of what   *)
(* was stored (2 more, capped, and one more suffix, while it is below      *)
(* 10); when the batch holds it, on top of the batch's values, which       *)
(* replace what was stored, so that repeating such a batch leaves it at    *)
(* min(s+2, 10) with one suffix.                                           *)
C6_RepeatEscalatesWhatTheCallStored ==
    (/\ last = "AddFindings"
     /\ CryptoStored(Findings)
     /\ PickedSSH(Findings) \in 1..Len(prev)) =>
        LET i == PickedSSH(Findings)
        IN  Findings[i] = EscalatedOnce(IF PlacesIn(batch, prev[i]) # {}
                                        THEN LatestIn(batch, prev[i])
                                        ELSE prev[i])

(* C6 witness: the qualifying batch was ingested over its own earlier      *)
(* result, and the SSH finding is where the earlier ingestion left it.     *)
C6_Witness ==
    /\ RepeatOfQualifyingData
    /\ \E i \in 1..Len(prev) :
          /\ i = PickedSSH(Findings)
          /\ PlacesIn(batch, prev[i]) # {}
          /\ Findings[i] = prev[i]
          /\ Findings[i].Severity = 4
          /\ Findings[i].RemediationHint = CriticalSuffix

(***************************************************************************)
(* Snapshot comparison, save and load.                                     *)
(***************************************************************************)
SignaturesOf(findings) == {GenerateSignature(findings[i]) : i \in 1..Len(findings)}

WithSignatureIn(findings, sigs) ==
    {f \in FindingSet(findings) : GenerateSignature(f) \in sigs}

(* A comparison ran: the baseline was loaded and diff is its result.       *)
Compared == last = "CompareWithBaseline" /\ err = NoError

(* C7: New is exactly the current findings whose signature the baseline    *)
(* lacks, Fixed exactly the baseline findings whose signature the current  *)
(* graph lacks, Unchanged exactly the current findings whose signature     *)
(* both have; no signature is in two of the three, and every signature of  *)
(* either graph is in one.                                                 *)
C7_DiffIsExactPartition ==
    Compared =>
        LET cur == SignaturesOf(Findings)
            base == SignaturesOf(baseline.Findings)
        IN  /\ FindingSet(diff.New) = WithSignatureIn(Findings, cur \ base)
            /\ FindingSet(diff.Fixed) = WithSignatureIn(baseline.Findings, base \ cur)
            /\ FindingSet(diff.Unchanged) = WithSignatureIn(Findings, cur \cap base)
            /\ SignaturesOf(diff.New) \cap SignaturesOf(diff.Fixed) = {}
            /\ SignaturesOf(diff.New) \cap SignaturesOf(diff.Unchanged) = {}
            /\ SignaturesOf(diff.Fixed) \cap SignaturesOf(diff.Unchanged) = {}
            /\ SignaturesOf(diff.New) \cup SignaturesOf(diff.Fixed)
                  \cup SignaturesOf(diff.Unchanged) = cur \cup base

(* The file is what SaveSnapshot writes for the graph as it is, and a new  *)
(* graph has just loaded it.                                               *)
LoadedOwnSnapshot ==
    /\ last = "CompareWithBaseline"
    /\ file = MarshalIndent(GraphSnapshot(g))

(* C8: the graph a new graph loads from the snapshot of a graph has that   *)
(* graph's findings, field by field and in order, and its nodes and edges. *)
C8_RoundTripReproducesGraph ==
    LoadedOwnSnapshot =>
        /\ baseline.Findings = Findings
        /\ baseline.Nodes = Nodes
        /\ baseline.Edges = Edges

(* C9: a load fails only when there is no file to read or the content is   *)
(* neither an envelope nor a list of findings.                             *)
C9_ErrorOnlyWhenNeitherParses ==
    (last = "CompareWithBaseline" /\ err # NoError) =>
        \/ file.shape = "missing"
        \/ (file.shape # "object" /\ file.shape # "null" /\ file.shape # "array")

RECURSIVE Within(_, _)
Within(edges, k) ==
    IF k = 0 THEN {"attacker"}
    ELSE LET near == Within(edges, k - 1)
         IN  near \cup {edges[i].TargetID : i \in {j \in 1..Len(edges) : edges[j].SourceID \in near}}

ChainEnds(edges) ==
    {edges[i].TargetID :
        i \in {j \in 1..Len(edges) : edges[j].SourceID \in Within(edges, Len(edges))}}

Hops(edges, v) ==
    CHOOSE k \in 0..Len(edges) :
        v \in Within(edges, k) /\ \A m \in 0..(k - 1) : v \notin Within(edges, m)

(* v is the asset of a stored finding of severity 7 or more.               *)
Qualifying(v) == \E i \in 1..Len(Findings) : Findings[i].Asset = v /\ Findings[i].Severity >= 7

PathNodes(p) == [i \in 1..Len(p.Steps) |-> p.Steps[i].NodeID]

PathEnd(p) == p.Steps[Len(p.Steps)].NodeID

FoundPaths == {search.paths[i] : i \in 1..Len(search.paths)}

(* ids is a chain of edges of the graph that starts at the attacker.       *)
IsChain(ids) ==
    /\ ids[1] = "attacker"
    /\ \A i \in 2..Len(ids) :
          \E k \in 1..Len(Edges) : Edges[k].SourceID = ids[i - 1] /\ Edges[k].TargetID = ids[i]

(* A search has returned, on a graph that has the attacker vertex.         *)
Searched == search.pc = "done" /\ "attacker" \in DOMAIN Nodes

(* The paths are one for each vertex of want, each a chain of the fewest   *)
(* edges.                                                                  *)
OneShortestPathEach(want) ==
    /\ {PathEnd(p) : p \in FoundPaths} = want
    /\ Len(search.paths) = Cardinality(want)
    /\ \A p \in FoundPaths :
          IsChain(PathNodes(p)) /\ Len(p.Steps) - 1 = Hops(Edges, PathEnd(p))

(* C11 as stated: the search returns exactly one path, of the fewest       *)
(* hops, for each vertex that is the asset of a finding of severity 7 or   *)
(* more and that a chain of edges from the attacker reaches, and no other  *)
(* path.                                                                   *)
C11_OnePathPerReachableTarget ==
    Searched =>
        OneShortestPathEach({v \in DOMAIN Nodes : Qualifying(v) /\ v \in ChainEnds(Edges)})

(* C11 as amended: the same for every such vertex other than the attacker  *)
(* vertex itself, which the search skips even when a finding names it and  *)
(* a cycle leads back to it.                                               *)
C11_OnePathPerReachableTargetButAttacker ==
    Searched =>
        OneShortestPathEach({v \in DOMAIN Nodes :
            Qualifying(v) /\ v \in ChainEnds(Edges) /\ v # "attacker"})

(* C11 witness: two targets found, one of them over the short cut of one   *)
(* hop although a chain of two edges leads to it as well.                  *)
C11_Witness ==
    /\ Searched
    /\ Len(search.paths) = 2
    /\ \E p \in FoundPaths : PathNodes(p) = <<"attacker", "S1">>
    /\ IsChain(<<"attacker", "H1", "S1">>)

C13_NoAttackerNoPaths ==
    (search.pc = "done" /\ "attacker" \notin DOMAIN Nodes) => search.paths = <<>>

(* C13 witness: a search has returned nothing on a graph without the       *)
(* attacker vertex whose edges lead from "attacker" to the asset of a      *)
(* finding of severity 8.                                                  *)
C13_Witness ==
    /\ search.pc = "done"
    /\ "attacker" \notin DOMAIN Nodes
    /\ IsChain(<<"attacker", "H1">>)
    /\ Qualifying("H1")
    /\ search.paths = <<>>

(* The vertices of the graph: the nodes and the ends of the edges.         *)
Vertices ==
    DOMAIN Nodes \cup {Edges[i].SourceID : i \in 1..Len(Edges)}
                 \cup {Edges[i].TargetID : i \in 1..Len(Edges)}

NoRepeat(ids) == \A i, j \in 1..Len(ids) : ids[i] = ids[j] => i = j

(* While findPath runs, every vertex it has visited was queued once: the   *)
(* paths taken from the queue and the paths still in it are as many as the *)
(* visited vertices, which are vertices of the graph, and no queued path   *)
(* comes to a vertex twice.  The loop takes a path from the queue at each  *)
(* turn, so it runs at most once per vertex.                               *)
FindPathBounded ==
    search.pc = "bfs" =>
        /\ search.steps + Len(search.queue) = Cardinality(search.visited)
        /\ search.visited \subseteq Vertices
        /\ \A i \in 1..Len(search.queue) : NoRepeat(search.queue[i])

(* What a search that has returned gives back: at most one path for each   *)
(* vertex, each without a repeated vertex, and none to a vertex no chain   *)
(* of edges reaches.                                                       *)
FinitePaths ==
    search.pc = "done" =>
        /\ \A i, j \in 1..Len(search.paths) :
              PathEnd(search.paths[i]) = PathEnd(search.paths[j]) => i = j
        /\ \A p \in FoundPaths :
              NoRepeat(PathNodes(p)) /\ PathEnd(p) \in ChainEnds(Edges)

(* C14: the search terminates on every graph, cycles and self-loops        *)
(* included: each findPath loop is bounded by the number of vertices, a    *)
(* search that has taken the lock returns in the end, and what it returns  *)
(* is one finite path for a target on a cycle and none for a target out of *)
(* reach.                                                                  *)
C14_SearchTerminates ==
    /\ [](FindPathBounded /\ FinitePaths)
    /\ (search.pc = "locked") ~> (search.pc = "done")

(* C14 witness: the search has returned a single path, attacker then H1,   *)
(* on a graph with the cycle attacker -> H1 -> attacker and a self-loop,   *)
(* and none for the target S1 that no edge leads to.                       *)
C14_Witness ==
    /\ Searched
    /\ IsChain(<<"attacker", "H1", "attacker", "attacker">>)
    /\ Qualifying("H1") /\ Qualifying("S1") /\ "S1" \notin ChainEnds(Edges)
    /\ Len(search.paths) = 1
    /\ PathNodes(search.paths[1]) = <<"attacker", "H1">>

(* A FindPathsToCriticalAssets call is between its RLock and its RUnlock.  *)
SearchUnderWay == search.pc \in {"locked", "range", "bfs", "return"}

(* C15: from the moment a search takes the read lock until it returns it   *)
(* holds the lock, and the nodes, edges and findings of the graph are      *)
(* those the graph had when the lock was taken: no producer's AddNode,     *)
(* AddEdge or AddFindings takes effect in between.                         *)
C15_SearchSeesOneGraphState ==
    SearchUnderWay => (mu > 0 /\ g = search.seen)

(* C15 witness: a findPath loop is at work on a graph that producers still *)
(* have nodes, edges and findings to add to.                               *)
C15_Witness ==
    /\ search.pc = "bfs"
    /\ search.steps >= 1
    /\ mu > 0
    /\ g = search.seen
    /\ "attacker" \in DOMAIN Nodes
    /\ Len(Edges) < MaxPathEdges
    /\ Len(Findings) < MaxPathFindings

(***************************************************************************)
(* Nodes of findings.                                                      *)
(***************************************************************************)
(* Every stored finding that names an asset has the node of that asset.    *)
AssetsHaveNodes ==
    \A i \in 1..Len(Findings) :
        Findings[i].Asset # "" =>
            /\ Findings[i].Asset \in DOMAIN Nodes
            /\ Nodes[Findings[i].Asset].ID = Findings[i].Asset

(* An AddFindings call leaves every node it finds as it is, and the nodes  *)
(* it adds are hosts.                                                      *)
AddFindingsKeepsNodes ==
    last' = "AddFindings" =>
        /\ \A id \in DOMAIN Nodes : id \in DOMAIN Nodes' /\ Nodes'[id] = Nodes[id]
        /\ \A id \in DOMAIN Nodes' \ DOMAIN Nodes :
              Nodes'[id].Type = "host" /\ Nodes'[id].ID = id

(* C16: after any sequence of AddNode, AddEdge and AddFindings every       *)
(* stored finding with an asset has a node keyed by the asset; a node that *)
(* AddFindings creates is a host, and AddFindings changes no node that     *)
(* was there before the call.                                              *)
C16_FindingsHaveNodesExistingNodesKept ==
    []AssetsHaveNodes /\ [][AddFindingsKeepsNodes]_vars

(* C16 witness: a finding on the asset "attacker" has just been ingested   *)
(* and the node a producer added for it is still of type attacker, with    *)
(* its label.                                                              *)
C16_Witness ==
    /\ last = "AddFindings"
    /\ \E j \in 1..Len(batch) : batch[j].Asset = "attacker"
    /\ "attacker" \in DOMAIN Nodes
    /\ Nodes["attacker"].Type = "attacker"
    /\ Nodes["attacker"].Label = "External Attacker / Scanner"

(* The record a call leaves for the finding f of its batch: the latest     *)
(* record of the batch with f's signature, its severity clamped, and       *)
(* escalated when it is the open-SSH finding the correlation pass picks.   *)
StoredFor(f, i) ==
    IF i = PickedSSH(Findings) /\ CryptoStored(Findings)
    THEN EscalatedOnce(LatestIn(batch, f))
    ELSE LatestIn(batch, f)

(* C17: a finding with an empty Asset is stored like any other, clamped    *)
(* and deduplicated, no node is created for it, and the findings that      *)
(* share its batch are stored and get their nodes.                         *)
C17_EmptyAssetFindingStored ==
    last = "AddFindings" =>
        /\ "" \notin DOMAIN Nodes
        /\ \A j \in 1..Len(batch) :
              /\ \E i \in 1..Len(Findings) :
                    /\ SameSignature(Findings[i], batch[j])
                    /\ Findings[i] = StoredFor(batch[j], i)
              /\ batch[j].Asset # "" => batch[j].Asset \in DOMAIN Nodes

(* C17 witness: the batch held a finding without asset, of severity -3,    *)
(* ahead of a finding on H1; both are stored, the first at severity 1,     *)
(* and H1 is the only node.                                                *)
C17_Witness ==
    /\ last = "AddFindings"
    /\ Len(batch) = 2 /\ batch[1].Asset = "" /\ batch[1].Severity = -3 /\ batch[2].Asset = "H1"
    /\ \E i \in 1..Len(Findings) :
          /\ SameSignature(Findings[i], batch[1])
          /\ Findings[i].Severity = 1
          /\ i < Len(Findings)
          /\ SameSignature(Findings[i + 1], batch[2])
    /\ DOMAIN Nodes = {"H1"}

(***************************************************************************)
(* Unchanged findings of a comparison.                                     *)
(***************************************************************************)
(* C18: a finding of the current graph whose signature the baseline has    *)
(* too is in Unchanged and its signature is in neither New nor Fixed,      *)
(* whatever the other fields of the two records are; and every record of   *)
(* Unchanged is a record of the current graph, field for field.            *)
C18_UnchangedCarriesCurrentRecord ==
    Compared =>
        /\ \A i \in 1..Len(Findings) :
              GenerateSignature(Findings[i]) \in SignaturesOf(baseline.Findings) =>
                  /\ Findings[i] \in FindingSet(diff.Unchanged)
                  /\ GenerateSignature(Findings[i]) \notin SignaturesOf(diff.New)
                  /\ GenerateSignature(Findings[i]) \notin SignaturesOf(diff.Fixed)
        /\ \A k \in 1..Len(diff.Unchanged) : diff.Unchanged[k] \in FindingSet(Findings)

(* C18 witness: the SSH finding was saved at one severity and hint, a      *)
(* later call has escalated it in the current graph, and the comparison    *)
(* reports the current record, not the saved one.                          *)
C18_Witness ==
    /\ Compared
    /\ \E i \in 1..Len(Findings), j \in 1..Len(baseline.Findings) :
          /\ GenerateSignature(Findings[i]) = GenerateSignature(baseline.Findings[j])
          /\ Findings[i].Severity # baseline.Findings[j].Severity
          /\ Findings[i].RemediationHint # baseline.Findings[j].RemediationHint
          /\ Findings[i] \in FindingSet(diff.Unchanged)
          /\ baseline.Findings[j] \notin FindingSet(diff.Unchanged)
          /\ diff.New = <<>> /\ diff.Fixed = <<>>

(***************************************************************************)
(* Steps of a path.                                                        *)
(***************************************************************************)
(* The places in Edges of the edges from one vertex to another.            *)
EdgesBetween(from, to) ==
    {k \in 1..Len(Edges) : Edges[k].SourceID = from /\ Edges[k].TargetID = to}

(* C19: the first step of a returned path is the attacker vertex with no   *)
(* edge type; every later step carries the type of the edge, from the      *)
(* step before to this one, that was added first.                          *)
C19_StepTypeOfEarliestEdge ==
    search.pc = "done" =>
        \A p \in FoundPaths :
            /\ p.Steps[1].NodeID = "attacker"
            /\ p.Steps[1].EdgeType = ""
            /\ \A i \in 2..Len(p.Steps) :
                  \E k \in EdgesBetween(p.Steps[i - 1].NodeID, p.Steps[i].NodeID) :
                      /\ \A m \in EdgesBetween(p.Steps[i - 1].NodeID, p.Steps[i].NodeID) : k <= m
                      /\ p.Steps[i].EdgeType = Edges[k].Type

(* C19 witness: two edges of different types lead from attacker to H1, the *)
(* credentials edge added first, and the step to H1 reports credentials.   *)
C19_Witness ==
    /\ search.pc = "done"
    /\ Cardinality(EdgesBetween("attacker", "H1")) = 2
    /\ \E k \in EdgesBetween("attacker", "H1") :
          /\ \A m \in EdgesBetween("attacker", "H1") : k <= m
          /\ Edges[k].Type = "credentials"
    /\ \E p \in FoundPaths :
          /\ Len(p.Steps) = 2
          /\ p.Steps[2].NodeID = "H1"
          /\ p.Steps[2].EdgeType = "credentials"
          /\ p.Steps[2].Description = "exploits credentials -> [H1] (host)"

(***************************************************************************)
(* Order of the findings.                                                  *)
(***************************************************************************)
(* The places of the batch that bring a signature neither stored before    *)
(* the call nor met earlier in the batch, in the order of the batch.       *)
FreshPlaces ==
    LET fresh(j) ==
            /\ \A i \in 1..Len(prev) : ~SameSignature(prev[i], batch[j])
            /\ \A m \in 1..(j - 1) : ~SameSignature(batch[m], batch[j])
    IN  SelectSeq([j \in 1..Len(batch) |-> j], fresh)

(* C20: an AddFindings call keeps every signature stored before it at its  *)
(* place, so that none is removed or moved and a finding ingested again    *)
(* is replaced where it stood, and the new signatures follow at the end    *)
(* in the order of the batch.                                              *)
C20_InsertionOrderKept ==
    last = "AddFindings" =>
        /\ Len(Findings) = Len(prev) + Len(FreshPlaces)
        /\ \A i \in 1..Len(prev) : SameSignature(Findings[i], prev[i])
        /\ \A k \in 1..Len(FreshPlaces) :
              SameSignature(Findings[Len(prev) + k], batch[FreshPlaces[k]])

(* C20 witness: the batch ingested again the first of two stored findings, *)
(* with other values, and brought a new one: the first record is replaced  *)
(* at place 1, the second stays at place 2, the new one is at place 3.     *)
C20_Witness ==
    /\ last = "AddFindings"
    /\ Len(prev) = 2 /\ Len(batch) = 2 /\ Len(Findings) = 3
    /\ SameSignature(batch[1], prev[1])
    /\ Findings[1] # prev[1]
    /\ SameSignature(Findings[1], prev[1])
    /\ Findings[2] = prev[2]
    /\ SameSignature(Findings[3], batch[2])

(***************************************************************************)
(* Signature and deduplication key.                                        *)
(***************************************************************************)
(* C21: two findings have the same signature exactly when they agree on    *)
(* SourceTool, Category, Asset and Evidence, whatever characters the       *)
(* fields hold: for the findings stored in the graph, which AddFindings    *)
(* keeps apart, and for a stored finding and a finding of the baseline.    *)
C21_SignatureIsTheDedupKey ==
    /\ \A i, j \in 1..Len(Findings) :
          (GenerateSignature(Findings[i]) = GenerateSignature(Findings[j]))
              <=> SameSignature(Findings[i], Findings[j])
    /\ \A i \in 1..Len(Findings), j \in 1..Len(baseline.Findings) :
          (GenerateSignature(Findings[i]) = GenerateSignature(baseline.Findings[j]))
              <=> SameSignature(Findings[i], baseline.Findings[j])

(* C24: no two stored findings agree on SourceTool, Category, Asset and    *)
(* Evidence, also after a batch that brought one tuple twice; and the      *)
(* tuple of every stored finding, escalated or not, is the one it was      *)
(* stored under: that of the finding at its place before the call, or      *)
(* that of a finding of the batch.                                         *)
C24_KeysAreUnique ==
    /\ \A i, j \in 1..Len(Findings) : SameSignature(Findings[i], Findings[j]) => i = j
    /\ last = "AddFindings" =>
          \A i \in 1..Len(Findings) :
              IF i <= Len(prev)
              THEN SameSignature(Findings[i], prev[i])
              ELSE \E j \in 1..Len(batch) : SameSignature(Findings[i], batch[j])

(* C24 witness: the batch held one tuple twice, the graph holds it once,   *)
(* and the correlation pass has escalated a finding stored before.         *)
C24_Witness ==
    /\ last = "AddFindings"
    /\ Len(batch) = 2 /\ SameSignature(batch[1], batch[2])
    /\ Cardinality({i \in 1..Len(Findings) : SameSignature(Findings[i], batch[1])}) = 1
    /\ \E i \in 1..Len(prev) :
          /\ Findings[i].Severity = prev[i].Severity + 2
          /\ Findings[i].RemediationHint = prev[i].RemediationHint \o CriticalSuffix

(***************************************************************************)
(* Soundness of the paths.                                                 *)
(***************************************************************************)
(* C25: every path a search returns has two steps or more, starts at the   *)
(* attacker, ends at a node of the graph that is the asset of a stored     *)
(* finding of severity 7 or more, follows an edge of the graph, in its     *)
(* direction, from each vertex to the next, and comes to no vertex twice;  *)
(* without a finding of severity 7 or more there is no path.               *)
C25_PathsAreSound ==
    search.pc = "done" =>
        /\ \A p \in FoundPaths :
              /\ Len(p.Steps) >= 2
              /\ PathEnd(p) \in DOMAIN Nodes
              /\ Qualifying(PathEnd(p))
              /\ IsChain(PathNodes(p))
              /\ NoRepeat(PathNodes(p))
        /\ (\A i \in 1..Len(Findings) : Findings[i].Severity < 7) => search.paths = <<>>

(* C25 witness: a path of three steps, attacker, H1, S1, to the finding on *)
(* S1, on a graph with the attacker node.                                  *)
C25_Witness ==
    /\ Searched
    /\ Len(search.paths) = 1
    /\ PathNodes(search.paths[1]) = <<"attacker", "H1", "S1">>
    /\ Qualifying("S1")
    /\ ~Qualifying("H1")

(***************************************************************************)
(* The frame of the correlation pass.                                      *)
(***************************************************************************)
(* The finding place i holds when the loop of the last call ends: the      *)
(* latest of the batch with its signature, clamped, or else the finding    *)
(* the place held before the call.                                         *)
AfterLoop(i) ==
    IF PlacesIn(batch, Findings[i]) # {} THEN LatestIn(batch, Findings[i]) ELSE prev[i]

(* C26: the correlation pass of a call changes at most one finding, the    *)
(* last of the stored findings that match the open-SSH test, and of it the *)
(* severity and the remediation hint only; every other finding, the other  *)
(* matching Nmap findings and the Lynis finding included, is as the loop   *)
(* left it.                                                                *)
C26_PassChangesLastMatchOnly ==
    last = "AddFindings" =>
        /\ \A i \in 1..Len(Findings) : i # PickedSSH(Findings) => Findings[i] = AfterLoop(i)
        /\ PickedSSH(Findings) # 0 =>
              Findings[PickedSSH(Findings)] =
                  [AfterLoop(PickedSSH(Findings)) EXCEPT
                      !.Severity = Findings[PickedSSH(Findings)].Severity,
                      !.RemediationHint = Findings[PickedSSH(Findings)].RemediationHint]

(* C26 witness: two stored Nmap findings match the test, a Lynis crypto    *)
(* finding is stored, and the call has raised the later of the two.        *)
C26_Witness ==
    /\ last = "AddFindings"
    /\ Cardinality({i \in 1..Len(Findings) : NmapOpenSSH(Findings[i])}) = 2
    /\ CryptoStored(Findings)
    /\ Findings[PickedSSH(Findings)] # AfterLoop(PickedSSH(Findings))
    /\ Findings[PickedSSH(Findings)].Severity = AfterLoop(PickedSSH(Findings)).Severity + 2

(***************************************************************************)
(* Escalation over successive calls.                                       *)
(***************************************************************************)
(* The findings stored after each of the calls on record: place k holds    *)
(* what the graph stores when call k has returned.                         *)
RECURSIVE StoredFrom(_, _)
StoredFrom(gr, batches) ==
    IF batches = <<>> THEN <<>>
    ELSE LET after == AddFindingsOp(gr, Head(batches))
         IN  <<after.Findings>> \o StoredFrom(after, Tail(batches))

StoredAfter == StoredFrom(NewUnifiedGraph, calls)

(* Call k ingests the finding that place i holds in the history h, and no  *)
(* later call on record ingests it again.                                  *)
LastIngestedBy(h, i, k) ==
    /\ PlacesIn(calls[k], h[k][i]) # {}
    /\ \A m \in (k + 1)..Len(calls) : PlacesIn(calls[m], h[k][i]) = {}

(* After call m the finding at place i is the open-SSH finding the pass    *)
(* escalates: the pass picks it and a Lynis crypto finding is stored.      *)
EscalatedBy(h, i, m) == i = PickedSSH(h[m]) /\ CryptoStored(h[m])

(* The parts of C27 that hold of every finding once it is escalated, from  *)
(* the call k that ingested it to the last call on record: the severity    *)
(* never goes down, nothing changes once it is 10, and the hint is the     *)
(* ingested one with at most five suffixes.                                *)
EscalationSettles(h, i, k) ==
    /\ \A m \in k..(Len(calls) - 1) :
          /\ h[m + 1][i].Severity >= h[m][i].Severity
          /\ h[m][i].Severity = 10 =>
                /\ h[m + 1][i].Severity = 10
                /\ h[m + 1][i].RemediationHint = h[m][i].RemediationHint
    /\ Findings[i].RemediationHint
           \in Escalations(LatestIn(calls[k], h[k][i]).RemediationHint, 5)

(* C27 as stated: an open-SSH finding that is not ingested again after     *)
(* call k, and that call e >= k escalates, never goes down in severity, is *)
(* at 10 after call e + 4 at the latest (at most five calls), and at 10    *)
(* keeps severity and hint (at most five suffixes in all).                 *)
C27_EscalatedFindingReachesTen ==
    LET h == StoredAfter
    IN  /\ calls # <<>> => h[Len(calls)] = Findings
        /\ \A k \in 1..Len(calls) : \A i \in 1..Len(h[k]) :
              LastIngestedBy(h, i, k) =>
                  \A e \in k..Len(calls) :
                      EscalatedBy(h, i, e) =>
                          /\ EscalationSettles(h, i, k)
                          /\ e + 4 <= Len(calls) => h[e + 4][i].Severity = 10

(* C27 as amended: the same, and the finding reaches 10 within the five    *)
(* calls when it is still the last stored open-SSH finding after each of   *)
(* them; a finding that a later call has put another open-SSH finding      *)
(* behind is escalated no further.                                         *)
C27_LastMatchReachesTen ==
    LET h == StoredAfter
    IN  /\ calls # <<>> => h[Len(calls)] = Findings
        /\ \A k \in 1..Len(calls) : \A i \in 1..Len(h[k]) :
              LastIngestedBy(h, i, k) =>
                  \A e \in k..Len(calls) :
                      EscalatedBy(h, i, e) =>
                          /\ EscalationSettles(h, i, k)
                          /\ (/\ e + 4 <= Len(calls)
                              /\ \A m \in e..(e + 4) : i = PickedSSH(h[m])) =>
                                 h[e + 4][i].Severity = 10
                          /\ \A m \in e..(Len(calls) - 1) :
                                i # PickedSSH(h[m + 1]) => h[m + 1][i] = h[m][i]

(* C27 witness: the finding ingested at severity 1 was escalated by five   *)
(* calls, to 3, 5, 7, 9 and 10, and a sixth call has left it at 10 with    *)
(* the five suffixes.                                                      *)
C27_Witness ==
    /\ Len(calls) = 7
    /\ calls[1] = <<LYN>> /\ calls[2] = <<SSH1(0)>>
    /\ \A m \in 3..7 : calls[m] = <<>>
    /\ [m \in 2..7 |-> StoredAfter[m][2].Severity] = [m \in 2..7 |-> IF m >= 6 THEN 10 ELSE 2 * m - 1]
    /\ Findings[2].Severity = 10
    /\ Findings[2].RemediationHint \in Escalations("", 5) \ Escalations("", 4)

(***************************************************************************)
(* LoadSnapshot on a graph that holds something.                           *)
(***************************************************************************)
(* The step is a LoadSnapshot call that returns without error on a file    *)
(* that holds a bare list of findings.                                     *)
LegacyLoadSucceeds ==
    /\ last' = "LoadSnapshot"
    /\ err' = NoError
    /\ file.shape = "array"

(* C22: a LoadSnapshot call that succeeds on a legacy file leaves the      *)
(* graph with no nodes, no edges and the findings of the file, whatever    *)
(* it held before.                                                         *)
C22_LegacyLoadReplacesGraph ==
    [][LegacyLoadSucceeds =>
          /\ Nodes' = NoNodes
          /\ Edges' = <<>>
          /\ Findings' = file.findings]_vars

(* The step is a LoadSnapshot call that returns an error.                  *)
LoadFails == last' = "LoadSnapshot" /\ err' # NoError

(* C28: a LoadSnapshot call that fails, because the file cannot be read    *)
(* or parses as neither schema, returns the error and leaves nodes, edges  *)
(* and findings as they were.                                              *)
C28_FailedLoadChangesNothing ==
    [][LoadFails => UNCHANGED <<Nodes, Edges, Findings>>]_vars

(* C28 witness: LoadSnapshot has returned a parse error on a graph that    *)
(* holds a node, an edge and findings.                                     *)
C28_Witness ==
    /\ last = "LoadSnapshot"
    /\ err = ParseError
    /\ file = NotJSON
    /\ Nodes # NoNodes /\ Edges # <<>> /\ Findings # <<>>

(* C28 witness: LoadSnapshot has returned the error of the read on a graph *)
(* that holds findings, the file missing.                                  *)
C28_WitnessNoFile ==
    /\ last = "LoadSnapshot"
    /\ err = ReadError
    /\ file = NoFile
    /\ Findings # <<>>

(* C28, a third case: the file is a saved envelope without nodes and       *)
(* findings, which the call rejects, on a graph that holds findings.       *)
C28_WitnessEmptyEnvelope ==
    /\ last = "LoadSnapshot"
    /\ err = ParseError
    /\ file.shape = "object"
    /\ Findings # <<>>

(***************************************************************************)
(* Ingestion as the readers see it.                                        *)
(***************************************************************************)
(* The producers whose call has begun and those whose call has returned,   *)
(* the orders in which the calls of some of them may run one after the     *)
(* other, and the graph such a run leaves.                                 *)
Begun == {p \in Producers : producers[p].pc # "idle"}

Returned == {p \in Producers : producers[p].pc = "done"}

SerialOrders(ps) ==
    {order \in UNION {[1..n -> ps] : n \in 0..Cardinality(ps)} :
        \A i, j \in DOMAIN order : order[i] = order[j] => i = j}

AfterCalls(order) ==
    Replay(NewUnifiedGraph, [i \in DOMAIN order |-> producers[order[i]].batch])

(* The graphs that the calls of all of ps leave, and those that the calls  *)
(* of some of ps leave.                                                    *)
AfterAll(ps) ==
    {AfterCalls(order) : order \in {o \in SerialOrders(ps) : Len(o) = Cardinality(ps)}}

BetweenCalls(ps) == {AfterCalls(order) : order \in SerialOrders(ps)}

(* C29: a reader that holds the read lock finds the graph as the calls     *)
(* that have returned leave it when run one after the other in some order, *)
(* never with part of a batch or with a batch short of its correlation     *)
(* pass, and finds the same graph at each of its looks; what it has seen   *)
(* is the graph between calls; when all producers have returned the graph  *)
(* is what their calls leave in one of the serial orders.                  *)
C29_BatchesAtomicToReaders ==
    /\ reader.pc \in {"locked", "reading", "return"} => g \in AfterAll(Returned)
    /\ reader.pc \in {"reading", "return"} => reader.first = g
    /\ reader.pc = "return" => reader.rest = g
    /\ reader.first \in BetweenCalls(Begun) /\ reader.rest \in BetweenCalls(Begun)
    /\ Returned = Producers => g \in AfterAll(Producers)

(* C29 witness: a report is made between the calls of two producers: the   *)
(* first has returned and left the escalated SSH finding and the Lynis     *)
(* finding, the second waits for the lock with its batch, and the reader   *)
(* has seen the first batch whole and correlated at both looks.            *)
C29_Witness ==
    /\ reader.kind = "GetReport" /\ reader.pc = "return"
    /\ producers["p1"].pc = "done" /\ producers["p1"].batch = <<SSH1(2), LYN>>
    /\ producers["p2"].pc = "idle"
    /\ reader.first = g /\ reader.rest = g
    /\ Len(Findings) = 2 /\ Findings[1].Severity = 4

(* C29 witness: both producers have returned, the second after the reader  *)
(* had let go of the lock, and the graph is what the order p2, p1 leaves.  *)
C29_WitnessSerial ==
    /\ \A p \in Producers : producers[p].pc = "done"
    /\ producers["p1"].batch = <<SSH1(2), LYN>> /\ producers["p2"].batch = <<LYN, SSH2>>
    /\ g = AfterCalls(<<"p2", "p1">>)
    /\ g # AfterCalls(<<"p1", "p2">>)
    /\ reader.pc = "idle" /\ reader.kind = "SaveSnapshot" /\ Len(reader.rest.Findings) = 2

(***************************************************************************)
(* The lock during the file I/O of a snapshot call.                        *)
(***************************************************************************)
(* A snapshot call is encoding or writing, or reading or decoding.         *)
SnapshotIOInProgress ==
    \/ snap.op = "SaveSnapshot" /\ snap.pc \in {"marshal", "write"}
    \/ snap.op = "LoadSnapshot" /\ snap.pc \in {"read", "parse"}

(* C23: while SaveSnapshot encodes and writes the file, and while          *)
(* LoadSnapshot reads and decodes it, the call does not hold the graph's   *)
(* lock: a producer's AddNode (as its AddEdge and AddFindings) can take    *)
(* the lock and run.                                                       *)
C23_ProducersRunDuringSnapshotIO ==
    SnapshotIOInProgress => WriteLock /\ ENABLED SnapAddNode

(***************************************************************************)
(* The two graphs of a comparison.                                         *)
(***************************************************************************)
(* CompareSnapshot is between its RLock and its return, before and after   *)
(* the step.                                                               *)
Comparing == cmp.pc \in {"baseline", "return"} /\ cmp'.pc \in {"baseline", "return"}

(* C30: while CompareSnapshot runs, no call changes the baseline graph,    *)
(* as none changes the current graph, and the findings of the baseline it  *)
(* has read are the baseline's findings.                                   *)
C30_BothGraphsStillWhileComparing ==
    [][Comparing =>
          /\ UNCHANGED <<Nodes, Edges, Findings>>
          /\ baseline' = baseline
          /\ cmp'.pc = "return" => cmp'.view = baseline'.Findings]_vars

(* C30, what the comparison can return: the baseline held the SSH finding  *)
(* at severity 5 when the loop began, a producer's AddFindings of the      *)
(* Lynis finding raised it to 7 and stored the Lynis finding, and the      *)
(* loop, one turn long, read the finding at 7: the diff reports as fixed   *)
(* a list that the baseline held at no time.                               *)
C30_TornBaselineRead ==
    /\ cmp.pc = "return"
    /\ Findings = <<>>
    /\ Len(cmp.start) = 1 /\ cmp.start[1].Severity = 5
    /\ Len(baseline.Findings) = 2 /\ baseline.Findings[1].Severity = 7
    /\ cmp.view = <<baseline.Findings[1]>>
    /\ diff.Fixed = cmp.view

====
